---- MODULE Spec2Model ----
(***************************************************************************)
(* ToonOutputParser (langchain-toon-output-parser): the response           *)
(* extractor and the extract -> decode -> validate pipeline of parse().    *)
(*                                                                         *)
(* Texts are sequences of one-character strings.  The external TOON        *)
(* decoder (@toon-format/toon) and the schema's validator (zod) are the    *)
(* environment: each call either returns a value or throws, and the model  *)
(* records what they were handed and what they answered.                   *)
(***************************************************************************)
EXTENDS Integers, Sequences, FiniteSets, TLC

VARIABLES
    ctorOptions,     \* the options argument given to the constructor
    options,         \* this.options, as the constructor stored it
    pc,              \* "idle" | "done" | "instructed" (parser) ; "input" | "extracted" (extractor alone) ;
                     \* "schema" (generator alone) ;
                     \* "ready" | "prompted" | "responded" | "done" (composed invoker)
    text,            \* the argument of the running / last parse call
    toonContent,     \* parse's local toonContent (string | null)
    decoded,         \* parse's local decoded
    outcome,         \* what the call gave its caller: a value or a thrown error
    decoderResult,   \* what the external decoder answered (when invoked)
    validatorResult, \* what schema.parse answered (when invoked)
    decodeCalls,     \* arguments of every decode(...) invocation of the call
    validateCalls,   \* arguments of every schema.parse(...) invocation of the call
    trace,           \* the stages the call ran, in order
    zodSchema,       \* the zod schema (this.schema of a parser, or the generator's argument)
    schemaShape,     \* the SchemaShape the generator derived from the schema
    instructions,    \* the text zodSchemaToToonInstructions / getFormatInstructions returned
    instructions_part002, \* the text the generator of unnamed/part_002 returned
    constraints,     \* the records collectEnumConstraints returned
    formatInstructions, \* withStructuredToonParser's const formatInstructions
    input,           \* the argument of the running / last invocation of the composed invoker
    messages,        \* what withInstructions returned
    modelCalls,      \* the arguments of every call of the model in the invocation
    modelResult,     \* what the model answered
    steps,           \* the steps of the sequence that ran, in order
    unwrappedNode,   \* getSchemaShape's local unwrapped, while its loop is followed step by step
    iterations,      \* how many times the body of that loop has run
    parsers,         \* the parser instances that calls run on concurrently
    calls            \* the calls in progress or finished on those instances, each with its locals

callVars == <<text, toonContent, decoded, outcome, decoderResult, validatorResult,
              decodeCalls, validateCalls, trace>>

generatorVars == <<schemaShape, instructions, instructions_part002, constraints>>

invokeVars == <<formatInstructions, input, messages, modelCalls, modelResult, steps>>

loopVars == <<unwrappedNode, iterations>>

concurrentVars == <<parsers, calls>>

vars == <<ctorOptions, options, pc, zodSchema, callVars, generatorVars, invokeVars, loopVars,
          concurrentVars>>

-----------------------------------------------------------------------------
(* Bounds *)

\* longest text, in tokens, given to the extractor on its own
MaxTokens == 5
\* longest interior / plain text, in tokens, given to parse
MaxParseTokens == 2
\* most violations one validator failure reports
MaxIssues == 2
\* the most fields an object schema has
MaxFields == 2
\* the most optional / nullable / default modifiers stacked on one schema node
MaxModifiers == 2
\* the most iterations of the unwrapping loop the model follows
MaxIterations == 4
\* the most invocations that run concurrently
MaxCalls == 2
\* the most messages a caller passes to the composed invoker
MaxMessages == 2

-----------------------------------------------------------------------------
(* Characters and texts *)

\* the backtick character U+0060 (a TLA+ string cannot hold it)
BT == "bt"
NL == "\n"

Fence == <<BT, BT, BT>>
TagToon == <<"t", "o", "o", "n">>
TagYaml == <<"y", "a", "m", "l">>

\* the pieces texts are built from
Tokens == { Fence, Fence \o TagToon, Fence \o TagYaml, <<NL>>, <<" ">>, <<"a">> }

\* the pieces of the short responses given to parse
PlainTokens == { <<NL>>, <<" ">>, <<"a">> }

RECURSIVE Flatten(_)
Flatten(ts) == IF ts = <<>> THEN <<>> ELSE Head(ts) \o Flatten(Tail(ts))

TextsOver(toks, n) == { Flatten(ts) : ts \in UNION { [1..k -> toks] : k \in 0..n } }

\* t wrapped in a fence carrying the given tag (<<>> for an untagged fence)
Fenced(tag, t) == Fence \o tag \o <<NL>> \o t \o <<NL>> \o Fence

Min(S) == CHOOSE x \in S : \A y \in S : x <= y
Max(S) == CHOOSE x \in S : \A y \in S : x >= y

-----------------------------------------------------------------------------
(* string | null *)

Null == [isNull |-> TRUE, str |-> <<>>]
Some(s) == [isNull |-> FALSE, str |-> s]

\* JavaScript truthiness of a string | null value: null and "" are falsy
Truthy(v) == ~v.isNull /\ v.str # <<>>

\* the characters \s matches
IsSpace(c) == c \in {" ", "\t", "\n", "\r"}

\* a trim that strips leading white space only
trimStart(s) ==
    LET keep == { i \in 1..Len(s) : ~IsSpace(s[i]) }
    IN  IF keep = {} THEN <<>> ELSE SubSeq(s, Min(keep), Len(s))

\* String.prototype.trim
trim(s) ==
    LET keep == { i \in 1..Len(s) : ~IsSpace(s[i]) }
    IN  IF keep = {} THEN <<>> ELSE SubSeq(s, Min(keep), Max(keep))

StartsAt(t, i, pat) ==
    /\ i >= 1
    /\ i + Len(pat) - 1 <= Len(t)
    /\ \A j \in 1..Len(pat) : t[i + j - 1] = pat[j]

-----------------------------------------------------------------------------
(* extractToonContent *)

\* (?:toon|yaml)? : the alternatives in the order the regex engine tries them
TagAlternatives == <<TagToon, TagYaml, <<>>>>

ClosingFence == <<NL>> \o Fence

\* where the part of the regex after the tag starts, for tag alternative a
AfterTag(i, a) == i + Len(Fence) + Len(TagAlternatives[a])

\* "```" and tag alternative a stand at position i of t
OpensAt(t, i, a) == StartsAt(t, i, Fence \o TagAlternatives[a])

\* \s*\n : \s* can take exactly the k characters from p, and a \n follows
SpaceThenNewline(t, p, k) ==
    /\ p + k <= Len(t)
    /\ t[p + k] = NL
    /\ \A j \in p..(p + k - 1) : IsSpace(t[j])

\* ([\s\S]*?)\n``` : the positions, from q on, where a closing "\n```" stands
GroupEnds(t, q) == { e \in q..(Len(t) - Len(Fence)) : StartsAt(t, e, ClosingFence) }

\* the lengths \s* can take at p so that the rest of the regex still matches
SpaceLengths(t, p) ==
    { k \in 0..(Len(t) - p) : SpaceThenNewline(t, p, k) /\ GroupEnds(t, p + k + 1) # {} }

\* the tag alternatives with which the regex matches at i
MatchingAlternatives(t, i) ==
    { a \in 1..Len(TagAlternatives) : OpensAt(t, i, a) /\ SpaceLengths(t, AfterTag(i, a)) # {} }

\* text.match(/```(?:toon|yaml)?\s*\n([\s\S]*?)\n```/): the leftmost match;
\* at that position the first alternative that can match, \s* greedy (the
\* longest run that still lets the rest match), the group lazy (the nearest
\* closing fence).  group1 is match[1].
codeBlockMatch(t) ==
    LET starts == { i \in 1..Len(t) : MatchingAlternatives(t, i) # {} }
    IN  IF starts = {} THEN [found |-> FALSE, group1 |-> <<>>]
        ELSE LET i == Min(starts)
                 a == Min(MatchingAlternatives(t, i))
                 k == Max(SpaceLengths(t, AfterTag(i, a)))
                 q == AfterTag(i, a) + k + 1
                 e == Min(GroupEnds(t, q))
             IN  [found |-> TRUE, group1 |-> SubSeq(t, q, e - 1)]

extractToonContent(t) ==
    LET match == codeBlockMatch(t)
        trimmed == trim(t)
    IN  IF match.found /\ Truthy(Some(match.group1))
        THEN Some(trim(match.group1))
        ELSE IF Truthy(Some(trimmed)) THEN Some(trimmed) ELSE Null

-----------------------------------------------------------------------------
(* Values the decoder and the validator exchange with parse *)

\* no value (yet): a local not assigned, a collaborator not invoked
NoValue == [t |-> "undefined", s |-> "", n |-> 0, items |-> <<>>]
NoThrown == [isError |-> FALSE, message |-> "", str |-> ""]

JStr(x) == [t |-> "string", s |-> x, n |-> 0, items |-> <<>>]
JNum(x) == [t |-> "number", s |-> "", n |-> x, items |-> <<>>]
JObj(entries) == [t |-> "object", s |-> "", n |-> 0, items |-> entries]
JArr(elems) == [t |-> "array", s |-> "", n |-> 0,
                items |-> [i \in 1..Len(elems) |-> [key |-> "", val |-> elems[i]]]]
Entry(k, v) == [key |-> k, val |-> v]

\* what the decoder may hand back
DecodedValues ==
    { JStr("invalid toon format {]"),
      JObj(<<Entry("age", JStr("not-a-number"))>>),
      JObj(<<Entry("users", JArr(<<JObj(<<Entry("id", JNum(1)), Entry("name", JStr("Alice"))>>)>>))>>) }

\* what a successful schema.parse may hand back: the decoded value as it is,
\* or another value (defaults filled in, unknown keys stripped, transforms)
TypedValues ==
    { JObj(<<Entry("age", JStr("not-a-number"))>>),
      JObj(<<Entry("name", JStr("John")), Entry("age", JNum(30))>>) }

\* what the decoder may throw: an Error with a message, or any other value
DecoderThrows ==
    { [isError |-> TRUE,  message |-> "Expected 2 tabular rows, but got 1", str |-> "Error: Expected 2 tabular rows, but got 1"],
      [isError |-> FALSE, message |-> "", str |-> "unterminated string"] }

Key(k) == [isKey |-> TRUE, key |-> k, index |-> 0]
Index(i) == [isKey |-> FALSE, key |-> "", index |-> i]

\* the violations a ZodError may carry (issue.path, issue.message)
Issues ==
    { [path |-> <<>>, message |-> "Expected object, received string"],
      [path |-> <<Key("users"), Index(0), Key("id")>>, message |-> "Required"] }

NoOutcome == [kind |-> "none", value |-> NoValue, error |-> <<>>]
NoDecoderResult == [ok |-> FALSE, value |-> NoValue, thrown |-> NoThrown]
NoValidatorResult == [ok |-> FALSE, value |-> NoValue, zod |-> FALSE, issues |-> <<>>, message |-> ""]

DecoderOutcomes ==
    { [ok |-> TRUE, value |-> v, thrown |-> NoThrown] : v \in DecodedValues }
    \cup { [ok |-> FALSE, value |-> NoValue, thrown |-> e] : e \in DecoderThrows }

ValidatorOutcomes ==
    { [ok |-> TRUE, value |-> v, zod |-> FALSE, issues |-> <<>>, message |-> ""] : v \in TypedValues }
    \cup { [ok |-> FALSE, value |-> NoValue, zod |-> TRUE, issues |-> is, message |-> "validation failed"] :
             is \in UNION { [1..k -> Issues] : k \in 1..MaxIssues } }
    \cup { [ok |-> FALSE, value |-> NoValue, zod |-> FALSE, issues |-> <<>>,
            message |-> "Async refinement encountered during synchronous parse operation"] }

-----------------------------------------------------------------------------
(* String building *)

RECURSIVE Repeat(_, _)
Repeat(str, n) == IF n <= 0 THEN "" ELSE str \o Repeat(str, n - 1)

\* Array.prototype.join on an array of strings
RECURSIVE join(_, _)
join(strs, sep) ==
    IF strs = <<>> THEN ""
    ELSE IF Len(strs) = 1 THEN strs[1]
    ELSE strs[1] \o sep \o join(Tail(strs), sep)

\* String(x) of a path segment: a key as it is, an index in decimal
SegmentString(seg) == IF seg.isKey THEN seg.key ELSE ToString(seg.index)

\* JSON.stringify(value, null, 2) (the strings here need no escaping)
RECURSIVE JSONstringify(_, _)
JSONstringify(v, level) ==
    LET inner == Repeat("  ", level + 1)
        member(m) == IF v.t = "object"
                     THEN inner \o "\"" \o m.key \o "\": " \o JSONstringify(m.val, level + 1)
                     ELSE inner \o JSONstringify(m.val, level + 1)
    IN  CASE v.t = "string" -> "\"" \o v.s \o "\""
          [] v.t = "number" -> ToString(v.n)
          [] v.t = "object" ->
                IF v.items = <<>> THEN "{}"
                ELSE "{\n" \o join([i \in 1..Len(v.items) |-> member(v.items[i])], ",\n")
                     \o "\n" \o Repeat("  ", level) \o "}"
          [] v.t = "array" ->
                IF v.items = <<>> THEN "[]"
                ELSE "[\n" \o join([i \in 1..Len(v.items) |-> member(v.items[i])], ",\n")
                     \o "\n" \o Repeat("  ", level) \o "]"

-----------------------------------------------------------------------------
(* Error messages: the pieces of each template, in order *)

Lit(str) == [lit |-> str, chars |-> <<>>]
Chars(cs) == [lit |-> "", chars |-> cs]

ExtractionFailureMessage ==
    << Lit("Could not extract TOON content from response. "),
       Lit("Expected response to contain TOON-formatted data in a code block or as plain text.") >>

\* error instanceof Error ? error.message : String(error)
ThrownText(e) == IF e.isError THEN e.message ELSE e.str

\* DecodeFailureMessage that reports the decoder's message alone
DecodeFailureMessageWithoutContent(thrown, content) ==
    << Lit("Failed to decode TOON format: "), Lit(ThrownText(thrown)) >>

DecodeFailureMessage(thrown, content) ==
    << Lit("Failed to decode TOON format: "), Lit(ThrownText(thrown)), Lit("\n\n"),
       Lit("TOON content:\n"), Chars(content) >>

\* IssueLine with issue.path.join(): the default separator is ","
IssueLineDefaultJoin(issue) ==
    "  - " \o join([i \in 1..Len(issue.path) |-> SegmentString(issue.path[i])], ",")
           \o ": " \o issue.message

\* `  - ${issue.path.join('.')}: ${issue.message}`
IssueLine(issue) ==
    "  - " \o join([i \in 1..Len(issue.path) |-> SegmentString(issue.path[i])], ".")
           \o ": " \o issue.message

ValidationFailureMessage(issues, decodedValue) ==
    << Lit("Failed to validate TOON output against schema:\n"),
       Lit(join([i \in 1..Len(issues) |-> IssueLine(issues[i])], "\n")), Lit("\n\n"),
       Lit("Decoded data: "), Lit(JSONstringify(decodedValue, 0)) >>

-----------------------------------------------------------------------------
(* Zod schemas, as the instruction generator reads them *)

\* a schema node: its class, and of its _def the parts the generator reads
\* (shape() of an object, innerType of a modifier, type of an array, values
\* of an enum); an absent part is the empty sequence
ZNode(typeName, shape, innerType, type, values) ==
    [typeName |-> typeName, shape |-> shape, innerType |-> innerType,
     type |-> type, values |-> values]

ZString == ZNode("ZodString", <<>>, <<>>, <<>>, <<>>)
ZNumber == ZNode("ZodNumber", <<>>, <<>>, <<>>, <<>>)
ZBoolean == ZNode("ZodBoolean", <<>>, <<>>, <<>>, <<>>)
ZDate == ZNode("ZodDate", <<>>, <<>>, <<>>, <<>>)
ZEnum(values) == ZNode("ZodEnum", <<>>, <<>>, <<>>, values)
ZObject(shape) == ZNode("ZodObject", shape, <<>>, <<>>, <<>>)
ZArray(element) == ZNode("ZodArray", <<>>, <<>>, <<element>>, <<>>)
ZOptional(inner) == ZNode("ZodOptional", <<>>, <<inner>>, <<>>, <<>>)
ZNullable(inner) == ZNode("ZodNullable", <<>>, <<inner>>, <<>>, <<>>)
ZDefault(inner) == ZNode("ZodDefault", <<>>, <<inner>>, <<>>, <<>>)
\* a schema of a class the generator has no case for
ZLiteral == ZNode("ZodLiteral", <<>>, <<>>, <<>>, <<>>)

Field(k, s) == [key |-> k, schema |-> s]

\* the classes the unwrapping loop of getSchemaShape steps through
Modifiers == {"ZodOptional", "ZodNullable", "ZodDefault"}

Digits == <<"0", "1", "2", "3", "4", "5", "6", "7", "8", "9">>
DigitValue(c) == (CHOOSE i \in 1..10 : Digits[i] = c) - 1

\* a property name that is a canonical array index ("0", "7", "12", not "07")
IsIndexKey(k) ==
    /\ Len(k) \in 1..9
    /\ \A i \in 1..Len(k) : \E d \in 1..10 : Digits[d] = k[i]
    /\ (Len(k) > 1 => k[1] # "0")

RECURSIVE IndexValue(_)
IndexValue(k) == IF k = <<>> THEN 0
                 ELSE 10 * IndexValue(SubSeq(k, 1, Len(k) - 1)) + DigitValue(k[Len(k)])

\* the entries sorted by a numeric rank (insertion sort, stable)
RECURSIVE SortByIndex(_)
SortByIndex(es) ==
    IF es = <<>> THEN <<>>
    ELSE LET least == CHOOSE i \in 1..Len(es) :
                          /\ \A j \in 1..Len(es) : IndexValue(es[i].key) <= IndexValue(es[j].key)
                          /\ \A j \in 1..(i - 1) : IndexValue(es[j].key) # IndexValue(es[i].key)
         IN  <<es[least]>> \o SortByIndex(SubSeq(es, 1, least - 1) \o SubSeq(es, least + 1, Len(es)))

\* Object.entries that reports the properties as they were written
ObjectEntriesAsWritten(es) == es

\* Object.entries / Object.keys of an object written with its properties in
\* the given order: index-like names first, ascending, then the others as written
ObjectEntries(es) ==
    SortByIndex(SelectSeq(es, LAMBDA e : IsIndexKey(e.key)))
        \o SelectSeq(es, LAMBDA e : ~IsIndexKey(e.key))

-----------------------------------------------------------------------------
(* zod-to-toon-instructions: the shape of a schema *)

Shape(type, fields, element, values) ==
    [type |-> type, fields |-> fields, element |-> element, values |-> values]

\* one run of the body of the while loop of getSchemaShape:
\* unwrapped = _def.innerType || _def.type || unwrapped
unwrapStep(node) ==
    IF node.innerType # <<>> THEN node.innerType[1]
    ELSE IF node.type # <<>> THEN node.type[1]
    ELSE node

\* an if in place of the while: one modifier is stepped through
unwrapOnce(schema) ==
    IF schema.typeName \in Modifiers
    THEN IF schema.innerType # <<>> THEN schema.innerType[1]
         ELSE IF schema.type # <<>> THEN schema.type[1]
         ELSE schema
    ELSE schema

\* the while loop of getSchemaShape:
\* unwrapped = _def.innerType || _def.type || unwrapped
RECURSIVE unwrap(_)
unwrap(schema) ==
    IF schema.typeName \in Modifiers
    THEN unwrap(IF schema.innerType # <<>> THEN schema.innerType[1]
                ELSE IF schema.type # <<>> THEN schema.type[1]
                ELSE schema)
    ELSE schema

\* the chain of instanceof tests, in their order; none matching falls to string
classifyWithoutDefault(typeName) ==
    IF typeName = "ZodObject" THEN "object"
    ELSE IF typeName = "ZodArray" THEN "array"
    ELSE IF typeName = "ZodString" THEN "string"
    ELSE IF typeName = "ZodNumber" THEN "number"
    ELSE IF typeName = "ZodBoolean" THEN "boolean"
    ELSE IF typeName = "ZodDate" THEN "date"
    ELSE IF typeName = "ZodEnum" THEN "enum"
    ELSE "unknown"

classify(typeName) ==
    IF typeName = "ZodObject" THEN "object"
    ELSE IF typeName = "ZodArray" THEN "array"
    ELSE IF typeName = "ZodString" THEN "string"
    ELSE IF typeName = "ZodNumber" THEN "number"
    ELSE IF typeName = "ZodBoolean" THEN "boolean"
    ELSE IF typeName = "ZodDate" THEN "date"
    ELSE IF typeName = "ZodEnum" THEN "enum"
    ELSE "string"

RECURSIVE getSchemaShape(_)
getSchemaShape(schema) ==
    LET unwrapped == unwrap(schema)
        type == classify(unwrapped.typeName)
        entries == ObjectEntries(unwrapped.shape)
    IN  CASE type = "object" ->
                Shape("object",
                      [i \in 1..Len(entries) |->
                          [key |-> entries[i].key, shape |-> getSchemaShape(entries[i].schema)]],
                      <<>>, <<>>)
          [] type = "array" ->
                Shape("array", <<>>, <<getSchemaShape(unwrapped.type[1])>>, <<>>)
          [] type = "enum" -> Shape("enum", <<>>, <<>>, unwrapped.values)
          [] OTHER -> Shape(type, <<>>, <<>>, <<>>)

-----------------------------------------------------------------------------
(* zod-to-toon-instructions: the literal texts of the templates *)

\* the template of zodSchemaToToonInstructions up to the end of its rules
RulesText ==
    << "P", "l", "e", "a", "s", "e", " ", "r", "e", "s", "p", "o", "n", "d", " ", "i", "n", " ", "T",
       "O", "O", "N", " ", "f", "o", "r", "m", "a", "t", " ", "(", "T", "o", "k", "e", "n", "-", "O",
       "r", "i", "e", "n", "t", "e", "d", " ", "O", "b", "j", "e", "c", "t", " ", "N", "o", "t", "a",
       "t", "i", "o", "n", ")", ".", NL, NL, "T", "O", "O", "N", " ", "F", "o", "r", "m", "a", "t",
       " ", "R", "u", "l", "e", "s", ":", NL, "-", " ", "U", "s", "e", " ", "2", "-", "s", "p", "a",
       "c", "e", " ", "i", "n", "d", "e", "n", "t", "a", "t", "i", "o", "n", " ", "f", "o", "r", " ",
       "n", "e", "s", "t", "e", "d", " ", "o", "b", "j", "e", "c", "t", "s", NL, "-", " ", "A", "r",
       "r", "a", "y", "s", " ", "u", "s", "e", " ", "t", "h", "e", " ", "f", "o", "r", "m", "a", "t",
       ":", " ", "a", "r", "r", "a", "y", "N", "a", "m", "e", "[", "N", "]", "{", "f", "i", "e", "l",
       "d", "1", ",", "f", "i", "e", "l", "d", "2", ",", ".", ".", ".", "}", ":", NL, "-", " ", "T",
       "h", "e", " ", "[", "N", "]", " ", "m", "u", "s", "t", " ", "m", "a", "t", "c", "h", " ", "t",
       "h", "e", " ", "a", "c", "t", "u", "a", "l", " ", "n", "u", "m", "b", "e", "r", " ", "o", "f",
       " ", "r", "o", "w", "s", NL, "-", " ", "F", "i", "e", "l", "d", "s", " ", "a", "r", "e", " ",
       "c", "o", "m", "m", "a", "-", "s", "e", "p", "a", "r", "a", "t", "e", "d", " ", "(", "o", "r",
       " ", "t", "a", "b", "-", "s", "e", "p", "a", "r", "a", "t", "e", "d", " ", "i", "f", " ", "s",
       "p", "e", "c", "i", "f", "i", "e", "d", ")", NL, "-", " ", "S", "t", "r", "i", "n", "g", "s",
       " ", "w", "i", "t", "h", " ", "c", "o", "m", "m", "a", "s", ",", " ", "q", "u", "o", "t", "e",
       "s", ",", " ", "o", "r", " ", "n", "e", "w", "l", "i", "n", "e", "s", " ", "m", "u", "s", "t",
       " ", "b", "e", " ", "q", "u", "o", "t", "e", "d", " ", "a", "n", "d", " ", "e", "s", "c", "a",
       "p", "e", "d" >>

\* the same part of the template in unnamed/part_002
RulesText_part002 ==
    << "P", "l", "e", "a", "s", "e", " ", "r", "e", "s", "p", "o", "n", "d", " ", "i", "n", " ", "T",
       "O", "O", "N", " ", "f", "o", "r", "m", "a", "t", " ", "(", "T", "o", "k", "e", "n", "-", "O",
       "r", "i", "e", "n", "t", "e", "d", " ", "O", "b", "j", "e", "c", "t", " ", "N", "o", "t", "a",
       "t", "i", "o", "n", ")", ".", NL, NL, "T", "O", "O", "N", " ", "F", "o", "r", "m", "a", "t",
       " ", "R", "u", "l", "e", "s", ":", NL, "-", " ", "U", "s", "e", " ", "2", "-", "s", "p", "a",
       "c", "e", " ", "i", "n", "d", "e", "n", "t", "a", "t", "i", "o", "n", " ", "f", "o", "r", " ",
       "n", "e", "s", "t", "e", "d", " ", "o", "b", "j", "e", "c", "t", "s", NL, "-", " ", "A", "r",
       "r", "a", "y", "s", " ", "u", "s", "e", " ", "t", "h", "e", " ", "f", "o", "r", "m", "a", "t",
       ":", " ", "a", "r", "r", "a", "y", "N", "a", "m", "e", "[", "c", "o", "u", "n", "t", "]", "{",
       "f", "i", "e", "l", "d", "1", ",", "f", "i", "e", "l", "d", "2", ",", ".", ".", ".", "}", ":",
       " ", "w", "h", "e", "r", "e", " ", "c", "o", "u", "n", "t", " ", "i", "s", " ", "t", "h", "e",
       " ", "a", "c", "t", "u", "a", "l", " ", "n", "u", "m", "b", "e", "r", " ", "o", "f", " ", "i",
       "t", "e", "m", "s", " ", "(", "e", ".", "g", ".", ",", " ", "[", "3", "]", " ", "f", "o", "r",
       " ", "3", " ", "i", "t", "e", "m", "s", ")", NL, "-", " ", "R", "e", "p", "l", "a", "c", "e",
       " ", "'", "c", "o", "u", "n", "t", "'", " ", "w", "i", "t", "h", " ", "t", "h", "e", " ", "a",
       "c", "t", "u", "a", "l", " ", "n", "u", "m", "b", "e", "r", " ", "o", "f", " ", "r", "o", "w",
       "s", " ", "i", "n", " ", "y", "o", "u", "r", " ", "d", "a", "t", "a", NL, "-", " ", "F", "i",
       "e", "l", "d", "s", " ", "a", "r", "e", " ", "c", "o", "m", "m", "a", "-", "s", "e", "p", "a",
       "r", "a", "t", "e", "d", " ", "(", "o", "r", " ", "t", "a", "b", "-", "s", "e", "p", "a", "r",
       "a", "t", "e", "d", " ", "i", "f", " ", "s", "p", "e", "c", "i", "f", "i", "e", "d", ")", NL,
       "-", " ", "S", "t", "r", "i", "n", "g", "s", " ", "w", "i", "t", "h", " ", "c", "o", "m", "m",
       "a", "s", ",", " ", "q", "u", "o", "t", "e", "s", ",", " ", "o", "r", " ", "n", "e", "w", "l",
       "i", "n", "e", "s", " ", "m", "u", "s", "t", " ", "b", "e", " ", "q", "u", "o", "t", "e", "d",
       " ", "a", "n", "d", " ", "e", "s", "c", "a", "p", "e", "d" >>

\* between the rules (and constraints) and the example
StructureText ==
    << NL, NL, "E", "x", "p", "e", "c", "t", "e", "d", " ", "s", "t", "r", "u", "c", "t", "u", "r",
       "e", ":", NL, BT, BT, BT, "t", "o", "o", "n", NL >>

\* after the example
ClosingText ==
    << NL, BT, BT, BT, NL, NL, "R", "e", "s", "p", "o", "n", "d", " ", "O", "N", "L", "Y", " ", "w",
       "i", "t", "h", " ", "t", "h", "e", " ", "T", "O", "O", "N", "-", "f", "o", "r", "m", "a", "t",
       "t", "e", "d", " ", "d", "a", "t", "a", " ", "i", "n", "s", "i", "d", "e", " ", "a", " ", "c",
       "o", "d", "e", " ", "b", "l", "o", "c", "k", "." >>

ConstraintsHeading ==
    << NL, NL, "F", "i", "e", "l", "d", " ", "C", "o", "n", "s", "t", "r", "a", "i", "n", "t", "s",
       ":", NL >>

MustBeOneOf ==
    << " ", "m", "u", "s", "t", " ", "b", "e", " ", "o", "n", "e", " ", "o", "f", ":", " " >>

HeaderCountN == <<"[", "N", "]">>

HeaderCount2 == <<"[", "2", "]">>

-----------------------------------------------------------------------------
(* zod-to-toon-instructions: the example and the instruction text *)

\* an indentation of one space for each level
spacesOne(n) == [i \in 1..n |-> " "]

\* '  '.repeat(n)
RECURSIVE spaces(_)
spaces(n) == IF n <= 0 THEN <<>> ELSE <<" ", " ">> \o spaces(n - 1)

\* Array.prototype.join on texts
RECURSIVE joinText(_, _)
joinText(parts, sep) ==
    IF parts = <<>> THEN <<>>
    ELSE IF Len(parts) = 1 THEN parts[1]
    ELSE parts[1] \o sep \o joinText(Tail(parts), sep)

Quoted(value) == <<"\"">> \o value \o <<"\"">>

\* getExampleValue without its alternate values
getExampleValueNoAlternate(shape, alternate) ==
    CASE shape.type = "string" -> <<"\"", "e", "x", "a", "m", "p", "l", "e", "1", "\"">>
      [] shape.type = "number" -> <<"1", "2", "3">>
      [] shape.type = "boolean" -> <<"t", "r", "u", "e">>
      [] shape.type = "date" ->
            <<"2", "0", "2", "5", "-", "0", "1", "-", "0", "1", "T", "0", "0", ":", "0", "0", ":", "0", "0", "Z">>
      [] shape.type = "enum" ->
            IF Len(shape.values) > 0 THEN Quoted(shape.values[1])
            ELSE <<"\"", "v", "a", "l", "u", "e", "\"">>
      [] OTHER -> <<"\"", "v", "a", "l", "u", "e", "1", "\"">>

\* getExampleValue of src/zod-to-toon-instructions.ts: an enum literal is always quoted
getExampleValue(shape, alternate) ==
    CASE shape.type = "string" -> IF alternate
            THEN <<"\"", "e", "x", "a", "m", "p", "l", "e", "2", "\"">>
            ELSE <<"\"", "e", "x", "a", "m", "p", "l", "e", "1", "\"">>
      [] shape.type = "number" -> IF alternate THEN <<"4", "2">> ELSE <<"1", "2", "3">>
      [] shape.type = "boolean" -> IF alternate
            THEN <<"f", "a", "l", "s", "e">>
            ELSE <<"t", "r", "u", "e">>
      [] shape.type = "date" -> IF alternate
            THEN <<"2", "0", "2", "5", "-", "0", "1", "-", "0", "2", "T", "0", "0", ":", "0", "0", ":", "0", "0", "Z">>
            ELSE <<"2", "0", "2", "5", "-", "0", "1", "-", "0", "1", "T", "0", "0", ":", "0", "0", ":", "0", "0", "Z">>
      [] shape.type = "enum" ->
            IF Len(shape.values) > 0
            THEN IF alternate /\ Len(shape.values) > 1
                 THEN Quoted(shape.values[2])
                 ELSE Quoted(shape.values[1])
            ELSE <<"\"", "v", "a", "l", "u", "e", "\"">>
      [] OTHER -> IF alternate
            THEN <<"\"", "v", "a", "l", "u", "e", "2", "\"">>
            ELSE <<"\"", "v", "a", "l", "u", "e", "1", "\"">>

\* /[,:\s"\\]/.test(value)
needsQuotes(value) ==
    \E i \in 1..Len(value) : value[i] \in {",", ":", "\"", "\\"} \/ IsSpace(value[i])

\* getExampleValue of unnamed/part_002: an enum literal is quoted only when needsQuotes
getExampleValue_part002(shape, alternate) ==
    CASE shape.type = "string" -> IF alternate
            THEN <<"\"", "e", "x", "a", "m", "p", "l", "e", "2", "\"">>
            ELSE <<"\"", "e", "x", "a", "m", "p", "l", "e", "1", "\"">>
      [] shape.type = "number" -> IF alternate THEN <<"4", "2">> ELSE <<"1", "2", "3">>
      [] shape.type = "boolean" -> IF alternate
            THEN <<"f", "a", "l", "s", "e">>
            ELSE <<"t", "r", "u", "e">>
      [] shape.type = "date" -> IF alternate
            THEN <<"2", "0", "2", "5", "-", "0", "1", "-", "0", "2", "T", "0", "0", ":", "0", "0", ":", "0", "0", "Z">>
            ELSE <<"2", "0", "2", "5", "-", "0", "1", "-", "0", "1", "T", "0", "0", ":", "0", "0", ":", "0", "0", "Z">>
      [] shape.type = "enum" ->
            IF Len(shape.values) > 0
            THEN LET value == IF alternate /\ Len(shape.values) > 1
                              THEN shape.values[2] ELSE shape.values[1]
                 IN  IF needsQuotes(value) THEN Quoted(value) ELSE value
            ELSE <<"\"", "v", "a", "l", "u", "e", "\"">>
      [] OTHER -> IF alternate
            THEN <<"\"", "v", "a", "l", "u", "e", "2", "\"">>
            ELSE <<"\"", "v", "a", "l", "u", "e", "1", "\"">>

\* a field line without the colon after the key
primitiveLineWithoutColon(indent, key, exampleValue) ==
    spaces(indent) \o key \o <<" ">> \o exampleValue

\* the line of a primitive field: `${spaces}${key}: ${exampleValue}`
primitiveLine(indent, key, exampleValue) ==
    spaces(indent) \o key \o <<":", " ">> \o exampleValue

\* a header whose names are joined with a comma and a space
arrayHeaderSpaced(fieldNames) ==
    HeaderCountN \o <<"{">> \o joinText(fieldNames, <<",", " ">>) \o <<"}", ":">>

\* the header of an array of objects: [N]{f1,f2,...}:
arrayHeader(fieldNames) ==
    HeaderCountN \o <<"{">> \o joinText(fieldNames, <<",">>) \o <<"}", ":">>

\* the same header in unnamed/part_002: [2]{f1,f2,...}:
arrayHeader_part002(fieldNames) ==
    HeaderCount2 \o <<"{">> \o joinText(fieldNames, <<",">>) \o <<"}", ":">>

\* generateToonExample of src/zod-to-toon-instructions.ts
RECURSIVE generateToonExample(_, _)
generateToonExample(shape, indent) ==
    IF shape.type = "object"
    THEN LET entries == ObjectEntries(shape.fields)
             line(e) ==
                 IF e.shape.type = "array"
                 THEN <<spaces(indent) \o e.key \o generateToonExample(e.shape, indent)>>
                 ELSE IF e.shape.type = "object"
                 THEN <<spaces(indent) \o e.key \o <<":">>,
                        generateToonExample(e.shape, indent + 1)>>
                 ELSE <<primitiveLine(indent, e.key, getExampleValue(e.shape, FALSE))>>
         IN  joinText(Flatten([i \in 1..Len(entries) |-> line(entries[i])]), <<NL>>)
    ELSE IF shape.type = "array"
    THEN IF shape.element[1].type = "object"
         THEN LET fields == ObjectEntries(shape.element[1].fields)
                  fieldNames == [i \in 1..Len(fields) |-> fields[i].key]
                  row1Values == [i \in 1..Len(fields) |-> getExampleValue(fields[i].shape, FALSE)]
                  row2Values == [i \in 1..Len(fields) |-> getExampleValue(fields[i].shape, TRUE)]
              IN  arrayHeader(fieldNames)
                      \o <<NL>> \o spaces(indent) \o <<" ", " ">> \o joinText(row1Values, <<",">>)
                      \o <<NL>> \o spaces(indent) \o <<" ", " ">> \o joinText(row2Values, <<",">>)
         ELSE HeaderCountN \o <<":", " ">> \o getExampleValue(shape.element[1], FALSE)
                  \o <<",", " ">> \o getExampleValue(shape.element[1], TRUE)
    ELSE getExampleValue(shape, FALSE)

\* generateToonExample of unnamed/part_002
RECURSIVE generateToonExample_part002(_, _)
generateToonExample_part002(shape, indent) ==
    IF shape.type = "object"
    THEN LET entries == ObjectEntries(shape.fields)
             line(e) ==
                 IF e.shape.type = "array"
                 THEN <<spaces(indent) \o e.key \o generateToonExample_part002(e.shape, indent)>>
                 ELSE IF e.shape.type = "object"
                 THEN <<spaces(indent) \o e.key \o <<":">>,
                        generateToonExample_part002(e.shape, indent + 1)>>
                 ELSE <<primitiveLine(indent, e.key, getExampleValue_part002(e.shape, FALSE))>>
         IN  joinText(Flatten([i \in 1..Len(entries) |-> line(entries[i])]), <<NL>>)
    ELSE IF shape.type = "array"
    THEN IF shape.element[1].type = "object"
         THEN LET fields == ObjectEntries(shape.element[1].fields)
                  fieldNames == [i \in 1..Len(fields) |-> fields[i].key]
                  row1Values == [i \in 1..Len(fields) |->
                                    getExampleValue_part002(fields[i].shape, FALSE)]
                  row2Values == [i \in 1..Len(fields) |->
                                    getExampleValue_part002(fields[i].shape, TRUE)]
              IN  arrayHeader_part002(fieldNames)
                      \o <<NL>> \o spaces(indent) \o <<" ", " ">> \o joinText(row1Values, <<",">>)
                      \o <<NL>> \o spaces(indent) \o <<" ", " ">> \o joinText(row2Values, <<",">>)
         ELSE HeaderCount2 \o <<":", " ">> \o getExampleValue_part002(shape.element[1], FALSE)
                  \o <<",">> \o getExampleValue_part002(shape.element[1], TRUE)
    ELSE getExampleValue_part002(shape, FALSE)

\* zodSchemaToToonInstructions of src/zod-to-toon-instructions.ts
zodSchemaToToonInstructions(schema) ==
    RulesText \o StructureText \o generateToonExample(getSchemaShape(schema), 0) \o ClosingText

Constraint(field, values) == [field |-> field, values |-> values]

\* collectEnumConstraints of unnamed/part_002
RECURSIVE collectEnumConstraints(_, _)
collectEnumConstraints(shape, prefix) ==
    IF shape.type = "object"
    THEN LET entries == ObjectEntries(shape.fields)
             found(e) ==
                 LET fieldPath == IF prefix # <<>> THEN prefix \o <<".">> \o e.key ELSE e.key
                 IN  IF e.shape.type = "enum"
                     THEN <<Constraint(fieldPath, e.shape.values)>>
                     ELSE IF e.shape.type = "object"
                     THEN collectEnumConstraints(e.shape, fieldPath)
                     ELSE IF e.shape.type = "array"
                     THEN IF e.shape.element[1].type = "enum"
                          THEN <<Constraint(fieldPath \o <<"[", "]">>, e.shape.element[1].values)>>
                          ELSE IF e.shape.element[1].type = "object"
                          THEN collectEnumConstraints(e.shape.element[1], fieldPath \o <<"[", "]">>)
                          ELSE <<>>
                     ELSE <<>>
         IN  Flatten([i \in 1..Len(entries) |-> found(entries[i])])
    ELSE <<>>

\* one line of the constraints section: - <field> must be one of: v1, v2, ...
constraintLine(c) ==
    <<"-", " ">> \o c.field \o MustBeOneOf \o joinText(c.values, <<",", " ">>)

constraintsText(enumConstraints) ==
    IF Len(enumConstraints) > 0
    THEN ConstraintsHeading
             \o joinText([i \in 1..Len(enumConstraints) |-> constraintLine(enumConstraints[i])],
                         <<NL>>)
    ELSE <<>>

\* zodSchemaToToonInstructions of unnamed/part_002
zodSchemaToToonInstructions_part002(schema) ==
    LET shape == getSchemaShape(schema)
    IN  RulesText_part002 \o constraintsText(collectEnumConstraints(shape, <<>>))
            \o StructureText \o generateToonExample_part002(shape, 0) \o ClosingText

-----------------------------------------------------------------------------
(* The schemas given to the generator *)

KeyId == <<"i", "d">>
KeyName == <<"n", "a", "m", "e">>
Key7 == <<"7">>
Keys == {KeyId, KeyName, Key7}

Roles == << <<"a", "d", "m", "i", "n">>, <<"u", "s", "e", "r">> >>
Statuses == << <<"t", "o", " ", "d", "o">> >>

\* schemas without parts: the primitives, two enums, and one of another class
Leaves == {ZString, ZNumber, ZBoolean, ZDate, ZEnum(Roles), ZEnum(Statuses), ZLiteral}

\* the schemas of S under at most n stacked modifiers, in every order
RECURSIVE Wrapped(_, _)
Wrapped(S, n) ==
    IF n <= 0 THEN S
    ELSE LET W == Wrapped(S, n - 1)
         IN  W \cup { ZOptional(s) : s \in W } \cup { ZNullable(s) : s \in W }
               \cup { ZDefault(s) : s \in W }

\* the ways to write at most n distinct keys, in every order
KeyLists(n) ==
    { ks \in UNION { [1..k -> Keys] : k \in 0..n } :
        \A i, j \in 1..Len(ks) : i # j => ks[i] # ks[j] }

\* the object bodies with at most n fields whose schemas come from S
FieldLists(S, n) ==
    UNION { { [i \in 1..Len(ks) |-> Field(ks[i], ss[i])] : ss \in [1..Len(ks) -> S] } :
            ks \in KeyLists(n) }

\* the objects that are elements of arrays: the rows of a table
RowObjects ==
    { ZObject(fl) :
        fl \in FieldLists({ZNumber, ZEnum(Roles), ZEnum(Statuses), ZOptional(ZString)}, MaxFields) }

IdAndName == ZObject(<<Field(KeyId, ZNumber), Field(KeyName, ZString)>>)

\* objects nested two deep
DeepObjects ==
    { ZObject(<<Field(KeyName, ZObject(<<Field(KeyId, s)>>))>>) :
        s \in {ZNumber, ZEnum(Roles), ZArray(ZEnum(Roles)),
               ZArray(ZObject(<<Field(KeyId, ZEnum(Roles))>>))} }

\* what a field, an element or a whole schema may be
FieldSchemas ==
    Wrapped(Leaves \cup {ZArray(ZString), ZObject(<<Field(KeyId, ZNumber)>>)}, MaxModifiers)
        \cup { ZArray(s) : s \in Leaves \cup RowObjects }
        \cup RowObjects
        \cup DeepObjects
        \cup {ZArray(ZArray(ZEnum(Roles))), ZArray(ZOptional(ZEnum(Roles)))}

\* what the fields of an object of several fields may be
SiblingSchemas ==
    {ZString, ZNumber, ZEnum(Roles), ZLiteral, ZOptional(ZString), ZArray(ZNumber),
     ZArray(IdAndName), ZObject(<<Field(KeyId, ZString)>>)}

Schemas ==
    FieldSchemas
        \cup { ZObject(<<Field(k, s)>>) : k \in Keys, s \in FieldSchemas }
        \cup { ZObject(fl) : fl \in FieldLists(SiblingSchemas, MaxFields) }

\* the schemas the parsers are constructed with
ParserSchemas ==
    { ZObject(<<Field(KeyName, ZArray(IdAndName))>>),
      ZObject(<<Field(KeyName, ZArray(ZObject(<<Field(KeyName, ZString),
                                                Field(Key7, ZNumber)>>)))>>) }

NoShape == Shape("none", <<>>, <<>>, <<>>)

-----------------------------------------------------------------------------
(* ToonOutputParser *)

Absent == [given |-> FALSE, v |-> ""]
AbsentFlag == [given |-> FALSE, v |-> FALSE]
Given(x) == [given |-> TRUE, v |-> x]

\* the options arguments a caller may construct a parser with
CtorOptions ==
    [delimiter : {Absent, Given("\t")}, strict : {AbsentFlag, Given(TRUE), Given(FALSE)}]

\* a constructor defaulting with || : an explicit strict: false becomes true
constructorWithOr(opts) ==
    [delimiter |-> IF opts.delimiter.given THEN opts.delimiter.v ELSE ",",
     strict    |-> IF opts.strict.given /\ opts.strict.v THEN opts.strict.v ELSE TRUE]

\* constructor: this.options = { delimiter: options.delimiter ?? ',', strict: options.strict ?? true }
constructor(opts) ==
    [delimiter |-> IF opts.delimiter.given THEN opts.delimiter.v ELSE ",",
     strict    |-> IF opts.strict.given THEN opts.strict.v ELSE TRUE]

\* the arguments parse hands to decode(): the content and { strict: this.options.strict }
decodeArguments(content, opts) == [content |-> content, options |-> [strict |-> opts.strict]]

Returned(v) == [kind |-> "value", value |-> v, error |-> <<>>]
Thrown(message) == [kind |-> "error", value |-> NoValue, error |-> message]

\* the state of one parse call: its locals, what it called, what it gave back
NewCall ==
    [toonContent |-> Null, decoded |-> NoValue, outcome |-> NoOutcome,
     decoderResult |-> NoDecoderResult, validatorResult |-> NoValidatorResult,
     decodeCalls |-> <<>>, validateCalls |-> <<>>, trace |-> <<>>]

\* a call that has returned or thrown runs no further statement
Running(call) == call.outcome.kind = "none"

\* extractStage without the "if (!toonContent) throw": whatever was extracted goes on
extractStageNoGuard(call, t) ==
    [call EXCEPT !.toonContent = extractToonContent(t), !.trace = Append(@, "extract")]

\* const toonContent = this.extractToonContent(text); if (!toonContent) throw ...
extractStage(call, t) ==
    LET content == extractToonContent(t)
        c1 == [call EXCEPT !.toonContent = content, !.trace = Append(@, "extract")]
    IN  IF ~Truthy(content)
        THEN [c1 EXCEPT !.outcome = Thrown(ExtractionFailureMessage)]
        ELSE c1

\* decodeStage with a catch that swallows: the call goes on with decoded unset
decodeStageSwallows(call, opts, d) ==
    IF ~Running(call) THEN call
    ELSE [call EXCEPT !.decodeCalls = Append(@, decodeArguments(call.toonContent.str, opts)),
                      !.decoderResult = d,
                      !.trace = Append(@, "decode"),
                      !.decoded = IF d.ok THEN d.value ELSE NoValue]

\* try { decoded = decode(toonContent, {...}) } catch (error) { throw new Error(...) }
\* d is what the decoder does with these arguments
decodeStage(call, opts, d) ==
    IF ~Running(call) THEN call
    ELSE LET c1 == [call EXCEPT !.decodeCalls = Append(@, decodeArguments(call.toonContent.str, opts)),
                                !.decoderResult = d,
                                !.trace = Append(@, "decode")]
         IN  IF d.ok
             THEN [c1 EXCEPT !.decoded = d.value]
             ELSE [c1 EXCEPT !.outcome = Thrown(DecodeFailureMessage(d.thrown, call.toonContent.str))]

\* validateStage that validates but returns the decoded value, not the validator's
validateStageReturnsDecoded(call, v) ==
    IF ~Running(call) THEN call
    ELSE LET c1 == [call EXCEPT !.validateCalls = Append(@, call.decoded),
                                !.validatorResult = v,
                                !.trace = Append(@, "validate")]
         IN  IF v.ok
             THEN [c1 EXCEPT !.outcome = Returned(call.decoded)]
             ELSE IF v.zod
             THEN [c1 EXCEPT !.outcome = Thrown(ValidationFailureMessage(v.issues, call.decoded))]
             ELSE [c1 EXCEPT !.outcome = Thrown(<<Lit(v.message)>>)]

\* validateStage with schema.parse inside the decode try block: whatever it
\* throws is reported by the decode catch clause
validateStageInsideDecodeTry(call, v) ==
    IF ~Running(call) THEN call
    ELSE LET c1 == [call EXCEPT !.validateCalls = Append(@, call.decoded),
                                !.validatorResult = v,
                                !.trace = Append(@, "validate")]
         IN  IF v.ok
             THEN [c1 EXCEPT !.outcome = Returned(v.value)]
             ELSE [c1 EXCEPT !.outcome =
                      Thrown(DecodeFailureMessage([isError |-> TRUE, message |-> v.message, str |-> ""],
                                                  call.toonContent.str))]

\* validateStage without the ZodError branch: every throw is passed on as it is
validateStageRethrowsAll(call, v) ==
    IF ~Running(call) THEN call
    ELSE LET c1 == [call EXCEPT !.validateCalls = Append(@, call.decoded),
                                !.validatorResult = v,
                                !.trace = Append(@, "validate")]
         IN  IF v.ok
             THEN [c1 EXCEPT !.outcome = Returned(v.value)]
             ELSE [c1 EXCEPT !.outcome = Thrown(<<Lit(v.message)>>)]

\* try { return this.schema.parse(decoded) } catch (error) { ZodError -> new Error(...); else rethrow }
\* v is what the validator does with the decoded value
validateStage(call, v) ==
    IF ~Running(call) THEN call
    ELSE LET c1 == [call EXCEPT !.validateCalls = Append(@, call.decoded),
                                !.validatorResult = v,
                                !.trace = Append(@, "validate")]
         IN  IF v.ok
             THEN [c1 EXCEPT !.outcome = Returned(v.value)]
             ELSE IF v.zod
             THEN [c1 EXCEPT !.outcome = Thrown(ValidationFailureMessage(v.issues, call.decoded))]
             ELSE [c1 EXCEPT !.outcome = Thrown(<<Lit(v.message)>>)]

\* async parse(text)
parse(opts, t, d, v) == validateStage(decodeStage(extractStage(NewCall, t), opts, d), v)

\* the responses given to parse: short plain texts, and the same
\* texts inside a ```toon, ```yaml or untagged fence
ParseTexts ==
    LET ts == TextsOver(PlainTokens, MaxParseTokens)
    IN  ts \cup { Fenced(tag, t) : tag \in {TagToon, TagYaml, <<>>}, t \in ts }

Init ==
    /\ ctorOptions \in CtorOptions
    /\ options = constructor(ctorOptions)
    /\ pc = "idle"
    /\ text = <<>>
    /\ toonContent = Null
    /\ decoded = NoValue
    /\ outcome = NoOutcome
    /\ decoderResult = NoDecoderResult
    /\ validatorResult = NoValidatorResult
    /\ decodeCalls = <<>>
    /\ validateCalls = <<>>
    /\ trace = <<>>
    /\ zodSchema \in ParserSchemas
    /\ schemaShape = NoShape
    /\ instructions = Null
    /\ instructions_part002 = Null
    /\ constraints = <<>>
    /\ formatInstructions = <<>>
    /\ input = [kind |-> "none", str |-> <<>>, list |-> <<>>]
    /\ messages = <<>>
    /\ modelCalls = <<>>
    /\ modelResult = [ok |-> FALSE, content |-> <<>>, thrown |-> ""]
    /\ steps = <<>>
    /\ unwrappedNode = zodSchema
    /\ iterations = 0
    /\ parsers = <<>>
    /\ calls = <<>>

\* one parse(t) call, run to its return or throw
Parse(t, d, v) ==
    /\ pc = "idle"
    /\ \E call \in {parse(options, t, d, v)} :
           /\ text' = t
           /\ toonContent' = call.toonContent
           /\ decoded' = call.decoded
           /\ outcome' = call.outcome
           /\ decoderResult' = call.decoderResult
           /\ validatorResult' = call.validatorResult
           /\ decodeCalls' = call.decodeCalls
           /\ validateCalls' = call.validateCalls
           /\ trace' = call.trace
    /\ pc' = "done"
    /\ UNCHANGED <<loopVars, concurrentVars, ctorOptions, options, zodSchema, generatorVars, invokeVars>>

\* getFormatInstructions(): return zodSchemaToToonInstructions(this.schema)
getFormatInstructions(s) == zodSchemaToToonInstructions(s)

\* one getFormatInstructions() call
GetFormatInstructions ==
    /\ pc = "idle"
    /\ instructions' = Some(getFormatInstructions(zodSchema))
    /\ pc' = "instructed"
    /\ UNCHANGED <<loopVars, concurrentVars, ctorOptions, options, zodSchema, callVars, schemaShape, instructions_part002,
                   constraints, invokeVars>>

\* the caller has taken the result; the call's locals are gone
Settle ==
    /\ pc \in {"done", "instructed"}
    /\ pc' = "idle"
    /\ text' = <<>>
    /\ toonContent' = Null
    /\ decoded' = NoValue
    /\ outcome' = NoOutcome
    /\ decoderResult' = NoDecoderResult
    /\ validatorResult' = NoValidatorResult
    /\ decodeCalls' = <<>>
    /\ validateCalls' = <<>>
    /\ trace' = <<>>
    /\ instructions' = Null
    /\ UNCHANGED <<loopVars, concurrentVars, ctorOptions, options, zodSchema, schemaShape, instructions_part002, constraints,
                   invokeVars>>

Next ==
    \/ \E t \in ParseTexts, d \in DecoderOutcomes, v \in ValidatorOutcomes : Parse(t, d, v)
    \/ GetFormatInstructions
    \/ Settle

Spec == Init /\ [][Next]_vars

-----------------------------------------------------------------------------
(* withStructuredToonParser: the composed invoker *)

Message(role, content) == [role |-> role, content |-> content]
SystemMessage(content) == Message("system", content)
HumanMessage(content) == Message("human", content)
AIMessage(content) == Message("ai", content)

StringInput(s) == [kind |-> "string", str |-> s, list |-> <<>>]
MessagesInput(m) == [kind |-> "messages", str |-> <<>>, list |-> m]
NoInput == [kind |-> "none", str |-> <<>>, list |-> <<>>]

\* what callers put in their messages
CallerMessages ==
    { HumanMessage(<<"h", "i">>), SystemMessage(<<"b", "e", " ", "b", "r", "i", "e", "f">>),
      AIMessage(<<"o", "k">>) }

\* the inputs of an invocation: a string, or at most MaxMessages messages
Inputs ==
    { StringInput(s) : s \in {<<>>, <<"h", "i">>} }
        \cup { MessagesInput(m) : m \in UNION { [1..k -> CallerMessages] : k \in 0..MaxMessages } }

NoModelResult == [ok |-> FALSE, content |-> <<>>, thrown |-> ""]

\* what the chat model answers: a message with a text, or a failure
ModelOutcomes ==
    { [ok |-> TRUE, content |-> t, thrown |-> ""] :
        t \in {<<>>, <<"a">>, Fenced(TagToon, <<"a">>)} }
        \cup { [ok |-> FALSE, content |-> <<>>, thrown |-> "429 Too Many Requests"] }

\* an invoker that puts the system message into the caller's own array
withInstructionsUnshift(instr, in) ==
    LET built == IF in.kind = "string"
                 THEN <<SystemMessage(instr), HumanMessage(in.str)>>
                 ELSE <<SystemMessage(instr)>> \o in.list
    IN  [messages |-> built,
         input |-> IF in.kind = "string" THEN in ELSE MessagesInput(built)]

\* withInstructions: the messages built for the model, and the input as the
\* call leaves it
withInstructions(instr, in) ==
    [messages |-> IF in.kind = "string"
                  THEN <<SystemMessage(instr), HumanMessage(in.str)>>
                  ELSE <<SystemMessage(instr)>> \o in.list,
     input |-> in]

\* a model step that calls the model once more when the call fails
modelStepRetrying(run, res) ==
    [run EXCEPT !.modelCalls = IF res.ok THEN Append(@, run.messages)
                               ELSE Append(Append(@, run.messages), run.messages),
                !.modelResult = res,
                !.steps = Append(@, "model"),
                !.outcome = IF res.ok THEN @ ELSE Thrown(<<Lit(res.thrown)>>)]

\* the second step of the sequence: this.invoke(messages), once; its failure
\* is the failure of the sequence
modelStep(run, res) ==
    [run EXCEPT !.modelCalls = Append(@, run.messages),
                !.modelResult = res,
                !.steps = Append(@, "model"),
                !.outcome = IF res.ok THEN @ ELSE Thrown(<<Lit(res.thrown)>>)]

-----------------------------------------------------------------------------
(* The extractor on its own: one text in, one extraction out *)

DefaultOptions == [delimiter |-> ",", strict |-> TRUE]
NoCtorOptions == [delimiter |-> [given |-> FALSE, v |-> ""], strict |-> [given |-> FALSE, v |-> FALSE]]

ExtractInit ==
    /\ ctorOptions = NoCtorOptions
    /\ options = DefaultOptions
    /\ pc = "input"
    /\ text \in TextsOver(Tokens, MaxTokens)
    /\ toonContent = Null
    /\ decoded = NoValue
    /\ outcome = NoOutcome
    /\ decoderResult = NoDecoderResult
    /\ validatorResult = NoValidatorResult
    /\ decodeCalls = <<>>
    /\ validateCalls = <<>>
    /\ trace = <<>>
    /\ zodSchema = IdAndName
    /\ schemaShape = NoShape
    /\ instructions = Null
    /\ instructions_part002 = Null
    /\ constraints = <<>>
    /\ formatInstructions = <<>>
    /\ input = [kind |-> "none", str |-> <<>>, list |-> <<>>]
    /\ messages = <<>>
    /\ modelCalls = <<>>
    /\ modelResult = [ok |-> FALSE, content |-> <<>>, thrown |-> ""]
    /\ steps = <<>>
    /\ unwrappedNode = zodSchema
    /\ iterations = 0
    /\ parsers = <<>>
    /\ calls = <<>>

Extract ==
    /\ pc = "input"
    /\ toonContent' = extractToonContent(text)
    /\ pc' = "extracted"
    /\ trace' = <<"extract">>
    /\ UNCHANGED <<loopVars, concurrentVars, ctorOptions, options, text, decoded, outcome, decoderResult,
                   validatorResult, decodeCalls, validateCalls, zodSchema, generatorVars,
                   invokeVars>>

ExtractNext == Extract

SpecExtract == ExtractInit /\ [][ExtractNext]_vars

-----------------------------------------------------------------------------
(* The instruction generator on its own: one schema in, the texts out *)

InstructInit ==
    /\ ctorOptions = NoCtorOptions
    /\ options = DefaultOptions
    /\ pc = "schema"
    /\ zodSchema \in Schemas
    /\ text = <<>>
    /\ toonContent = Null
    /\ decoded = NoValue
    /\ outcome = NoOutcome
    /\ decoderResult = NoDecoderResult
    /\ validatorResult = NoValidatorResult
    /\ decodeCalls = <<>>
    /\ validateCalls = <<>>
    /\ trace = <<>>
    /\ schemaShape = NoShape
    /\ instructions = Null
    /\ instructions_part002 = Null
    /\ constraints = <<>>
    /\ formatInstructions = <<>>
    /\ input = [kind |-> "none", str |-> <<>>, list |-> <<>>]
    /\ messages = <<>>
    /\ modelCalls = <<>>
    /\ modelResult = [ok |-> FALSE, content |-> <<>>, thrown |-> ""]
    /\ steps = <<>>
    /\ unwrappedNode = zodSchema
    /\ iterations = 0
    /\ parsers = <<>>
    /\ calls = <<>>

\* zodSchemaToToonInstructions(schema) of src/zod-to-toon-instructions.ts
Instruct ==
    /\ instructions.isNull
    /\ schemaShape' = getSchemaShape(zodSchema)
    /\ instructions' = Some(zodSchemaToToonInstructions(zodSchema))
    /\ UNCHANGED <<loopVars, concurrentVars, ctorOptions, options, pc, zodSchema, callVars, instructions_part002,
                   constraints, invokeVars>>

\* zodSchemaToToonInstructions(schema) of unnamed/part_002
Instruct_part002 ==
    /\ instructions_part002.isNull
    /\ schemaShape' = getSchemaShape(zodSchema)
    /\ constraints' = collectEnumConstraints(schemaShape', <<>>)
    /\ instructions_part002' = Some(zodSchemaToToonInstructions_part002(zodSchema))
    /\ UNCHANGED <<loopVars, concurrentVars, ctorOptions, options, pc, zodSchema, callVars, instructions, invokeVars>>

InstructNext == Instruct \/ Instruct_part002

SpecInstruct == InstructInit /\ [][InstructNext]_vars

-----------------------------------------------------------------------------
(* The unwrapping loop of getSchemaShape, one iteration at a time *)

\* the schema values the loop is followed on: the leaves, a modifier object
\* whose inner schema is under _def.type, and modifier objects whose _def
\* holds neither innerType nor type, each under at most MaxModifiers modifiers
LoopSchemas ==
    Wrapped(Leaves \cup {ZNode("ZodOptional", <<>>, <<>>, <<ZString>>, <<>>)}
                   \cup { ZNode(m, <<>>, <<>>, <<>>, <<>>) : m \in Modifiers },
            MaxModifiers)

LoopInit ==
    /\ ctorOptions = NoCtorOptions
    /\ options = DefaultOptions
    /\ pc = "unwrapping"
    /\ zodSchema \in LoopSchemas
    /\ text = <<>>
    /\ toonContent = Null
    /\ decoded = NoValue
    /\ outcome = NoOutcome
    /\ decoderResult = NoDecoderResult
    /\ validatorResult = NoValidatorResult
    /\ decodeCalls = <<>>
    /\ validateCalls = <<>>
    /\ trace = <<>>
    /\ schemaShape = NoShape
    /\ instructions = Null
    /\ instructions_part002 = Null
    /\ constraints = <<>>
    /\ formatInstructions = <<>>
    /\ input = [kind |-> "none", str |-> <<>>, list |-> <<>>]
    /\ messages = <<>>
    /\ modelCalls = <<>>
    /\ modelResult = [ok |-> FALSE, content |-> <<>>, thrown |-> ""]
    /\ steps = <<>>
    /\ unwrappedNode = zodSchema
    /\ iterations = 0
    /\ parsers = <<>>
    /\ calls = <<>>

\* while (unwrapped instanceof ZodOptional || ... ZodNullable || ... ZodDefault) { body }
\* (the model follows the loop for MaxIterations iterations)
UnwrapIteration ==
    /\ pc = "unwrapping"
    /\ unwrappedNode.typeName \in Modifiers
    /\ iterations < MaxIterations
    /\ unwrappedNode' = unwrapStep(unwrappedNode)
    /\ iterations' = iterations + 1
    /\ UNCHANGED <<concurrentVars, ctorOptions, options, pc, zodSchema, callVars, generatorVars,
                   invokeVars>>

\* the loop has ended: the instanceof chain and the recursion into the parts
ClassifyUnwrapped ==
    /\ pc = "unwrapping"
    /\ unwrappedNode.typeName \notin Modifiers
    /\ schemaShape' = getSchemaShape(unwrappedNode)
    /\ pc' = "classified"
    /\ UNCHANGED <<loopVars, concurrentVars, ctorOptions, options, zodSchema, callVars,
                   instructions, instructions_part002, constraints, invokeVars>>

LoopNext == UnwrapIteration \/ ClassifyUnwrapped

SpecLoop == LoopInit /\ [][LoopNext]_vars

-----------------------------------------------------------------------------
(* The composed invoker: withStructuredToonParser(schema, options), invoked *)

\* after withStructuredToonParser: the parser is constructed and its format
\* instructions are taken, once
InvokeInit ==
    /\ ctorOptions \in CtorOptions
    /\ options = constructor(ctorOptions)
    /\ zodSchema \in ParserSchemas
    /\ formatInstructions = getFormatInstructions(zodSchema)
    /\ pc = "ready"
    /\ input = NoInput
    /\ messages = <<>>
    /\ modelCalls = <<>>
    /\ modelResult = NoModelResult
    /\ steps = <<>>
    /\ unwrappedNode = zodSchema
    /\ iterations = 0
    /\ parsers = <<>>
    /\ calls = <<>>
    /\ text = <<>>
    /\ toonContent = Null
    /\ decoded = NoValue
    /\ outcome = NoOutcome
    /\ decoderResult = NoDecoderResult
    /\ validatorResult = NoValidatorResult
    /\ decodeCalls = <<>>
    /\ validateCalls = <<>>
    /\ trace = <<>>
    /\ schemaShape = NoShape
    /\ instructions = Null
    /\ instructions_part002 = Null
    /\ constraints = <<>>

\* invoke(in): the first step of the sequence, withInstructions
Invoke(in) ==
    /\ pc = "ready"
    /\ \E built \in {withInstructions(formatInstructions, in)} :
           /\ messages' = built.messages
           /\ input' = built.input
    /\ steps' = <<"withInstructions">>
    /\ pc' = "prompted"
    /\ UNCHANGED <<loopVars, concurrentVars, ctorOptions, options, zodSchema, callVars, generatorVars,
                   formatInstructions, modelCalls, modelResult>>

\* the second step: the model is called with the messages and answers or fails
CallModel(res) ==
    /\ pc = "prompted"
    /\ \E run \in {modelStep([messages |-> messages, modelCalls |-> modelCalls,
                              modelResult |-> modelResult, steps |-> steps,
                              outcome |-> outcome], res)} :
           /\ modelCalls' = run.modelCalls
           /\ modelResult' = run.modelResult
           /\ steps' = run.steps
           /\ outcome' = run.outcome
           /\ pc' = IF run.outcome.kind = "none" THEN "responded" ELSE "done"
    /\ UNCHANGED <<loopVars, concurrentVars, ctorOptions, options, zodSchema, generatorVars, formatInstructions,
                   input, messages, text, toonContent, decoded, decoderResult,
                   validatorResult, decodeCalls, validateCalls, trace>>

\* the third step: the parser parses the text of the model's answer
ParseResponse(d, v) ==
    /\ pc = "responded"
    /\ \E call \in {parse(options, modelResult.content, d, v)} :
           /\ text' = modelResult.content
           /\ toonContent' = call.toonContent
           /\ decoded' = call.decoded
           /\ outcome' = call.outcome
           /\ decoderResult' = call.decoderResult
           /\ validatorResult' = call.validatorResult
           /\ decodeCalls' = call.decodeCalls
           /\ validateCalls' = call.validateCalls
           /\ trace' = call.trace
    /\ steps' = Append(steps, "parser")
    /\ pc' = "done"
    /\ UNCHANGED <<loopVars, concurrentVars, ctorOptions, options, zodSchema, generatorVars, formatInstructions,
                   input, messages, modelCalls, modelResult>>

\* the caller has the result or the failure; the locals of the invocation
\* are gone and the invoker can be invoked again
Finish ==
    /\ pc = "done"
    /\ pc' = "ready"
    /\ input' = NoInput
    /\ messages' = <<>>
    /\ modelCalls' = <<>>
    /\ modelResult' = NoModelResult
    /\ steps' = <<>>
    /\ text' = <<>>
    /\ toonContent' = Null
    /\ decoded' = NoValue
    /\ outcome' = NoOutcome
    /\ decoderResult' = NoDecoderResult
    /\ validatorResult' = NoValidatorResult
    /\ decodeCalls' = <<>>
    /\ validateCalls' = <<>>
    /\ trace' = <<>>
    /\ UNCHANGED <<loopVars, concurrentVars, ctorOptions, options, zodSchema, generatorVars, formatInstructions>>

InvokeNext ==
    \/ \E in \in Inputs : Invoke(in)
    \/ \E res \in ModelOutcomes : CallModel(res)
    \/ \E d \in DecoderOutcomes, v \in ValidatorOutcomes : ParseResponse(d, v)
    \/ Finish

SpecInvoke == InvokeInit /\ [][InvokeNext]_vars

-----------------------------------------------------------------------------
(* Calls running concurrently on parser instances *)

\* the locals of call i, with toonContent kept in a field of the parser
\* instead: a call reads what another call on the same parser extracted
sharedLocals(cs, i) ==
    LET others == { j \in 1..Len(cs) : /\ j # i
                                       /\ cs[j].parser = cs[i].parser
                                       /\ cs[j].kind = "parse"
                                       /\ ~cs[j].locals.toonContent.isNull }
    IN  IF others = {} THEN cs[i].locals
        ELSE [cs[i].locals EXCEPT !.toonContent = cs[CHOOSE j \in others : TRUE].locals.toonContent]

\* the locals of an invocation of parse: const toonContent, let decoded and
\* what the invocation has done so far belong to that invocation alone
callLocals(cs, i) == cs[i].locals

\* getFormatInstructions with the example's commas replaced by the parser's delimiter
getFormatInstructionsDelimited(parser) ==
    LET t == getFormatInstructions(parser.schema)
    IN  [i \in 1..Len(t) |-> IF t[i] = "," THEN parser.options.delimiter ELSE t[i]]

\* getFormatInstructions() on a parser: this.schema is all it reads
getFormatInstructionsOf(parser) == getFormatInstructions(parser.schema)

\* two parsers constructed from one schema, the first without options, the
\* second without options or with a tab delimiter and strict: false; no call yet
ConcurrentInit ==
    /\ ctorOptions = NoCtorOptions
    /\ options = DefaultOptions
    /\ pc = "concurrent"
    /\ zodSchema \in ParserSchemas
    /\ text = <<>>
    /\ toonContent = Null
    /\ decoded = NoValue
    /\ outcome = NoOutcome
    /\ decoderResult = NoDecoderResult
    /\ validatorResult = NoValidatorResult
    /\ decodeCalls = <<>>
    /\ validateCalls = <<>>
    /\ trace = <<>>
    /\ schemaShape = NoShape
    /\ instructions = Null
    /\ instructions_part002 = Null
    /\ constraints = <<>>
    /\ formatInstructions = <<>>
    /\ input = [kind |-> "none", str |-> <<>>, list |-> <<>>]
    /\ messages = <<>>
    /\ modelCalls = <<>>
    /\ modelResult = [ok |-> FALSE, content |-> <<>>, thrown |-> ""]
    /\ steps = <<>>
    /\ unwrappedNode = zodSchema
    /\ iterations = 0
    /\ \E c \in {NoCtorOptions, [delimiter |-> Given("\t"), strict |-> Given(FALSE)]} :
           parsers = << [schema |-> zodSchema, options |-> constructor(NoCtorOptions)],
                        [schema |-> zodSchema, options |-> constructor(c)] >>
    /\ calls = [i \in 1..MaxCalls |->
                   [parser |-> 0, kind |-> "none", pc |-> "idle", text |-> <<>>,
                    locals |-> NewCall, instructions |-> <<>>]]

\* parser p's parse(t) is called: invocation i begins
CallParse(i, p, t) ==
    /\ calls[i].pc = "idle"
    /\ calls' = [calls EXCEPT ![i] = [parser |-> p, kind |-> "parse", pc |-> "extract", text |-> t,
                                      locals |-> NewCall, instructions |-> <<>>]]
    /\ UNCHANGED <<loopVars, parsers, ctorOptions, options, pc, zodSchema, callVars,
                   generatorVars, invokeVars>>

\* invocation i runs its extraction and the check of its result
ExtractStep(i) ==
    /\ calls[i].pc = "extract"
    /\ \E after \in {extractStage(callLocals(calls, i), calls[i].text)} :
           calls' = [calls EXCEPT ![i].locals = after,
                                  ![i].pc = IF Running(after) THEN "decode" ELSE "returned"]
    /\ UNCHANGED <<loopVars, parsers, ctorOptions, options, pc, zodSchema, callVars,
                   generatorVars, invokeVars>>

\* invocation i calls the decoder, which answers d
DecodeStep(i, d) ==
    /\ calls[i].pc = "decode"
    /\ \E after \in {decodeStage(callLocals(calls, i), parsers[calls[i].parser].options, d)} :
           calls' = [calls EXCEPT ![i].locals = after,
                                  ![i].pc = IF Running(after) THEN "validate" ELSE "returned"]
    /\ UNCHANGED <<loopVars, parsers, ctorOptions, options, pc, zodSchema, callVars,
                   generatorVars, invokeVars>>

\* invocation i calls the validator, which answers v
ValidateStep(i, v) ==
    /\ calls[i].pc = "validate"
    /\ calls' = [calls EXCEPT ![i].locals = validateStage(callLocals(calls, i), v),
                              ![i].pc = "returned"]
    /\ UNCHANGED <<loopVars, parsers, ctorOptions, options, pc, zodSchema, callVars,
                   generatorVars, invokeVars>>

\* parser p's getFormatInstructions() is called and returns: invocation i
CallGetFormatInstructions(i, p) ==
    /\ calls[i].pc = "idle"
    /\ calls' = [calls EXCEPT ![i] = [parser |-> p, kind |-> "getFormatInstructions",
                                      pc |-> "returned", text |-> <<>>, locals |-> NewCall,
                                      instructions |-> getFormatInstructionsOf(parsers[p])]]
    /\ UNCHANGED <<loopVars, parsers, ctorOptions, options, pc, zodSchema, callVars,
                   generatorVars, invokeVars>>

\* any invocation may take its next step at any time; the decoder and the
\* validator each accept or refuse
ConcurrentNext ==
    \E i \in 1..MaxCalls :
        \/ \E p \in 1..Len(parsers), t \in {Fenced(TagToon, <<"a">>), <<"a", "a">>, <<" ">>} :
               CallParse(i, p, t)
        \/ ExtractStep(i)
        \/ \E d \in {CHOOSE x \in DecoderOutcomes : x.ok, CHOOSE x \in DecoderOutcomes : ~x.ok} :
               DecodeStep(i, d)
        \/ \E v \in {CHOOSE x \in ValidatorOutcomes : x.ok, CHOOSE x \in ValidatorOutcomes : x.zod} :
               ValidateStep(i, v)
        \/ \E p \in 1..Len(parsers) : CallGetFormatInstructions(i, p)

SpecConcurrent == ConcurrentInit /\ [][ConcurrentNext]_vars

-----------------------------------------------------------------------------
(* Properties *)

\* how a caller tells the failures apart: by the text the message starts with
ErrorKind(message) ==
    IF message = <<>> THEN "none"
    ELSE IF message[1] = Lit("Could not extract TOON content from response. ") THEN "ExtractionFailure"
    ELSE IF message[1] = Lit("Failed to decode TOON format: ") THEN "DecodeFailure"
    ELSE IF message[1] = Lit("Failed to validate TOON output against schema:\n") THEN "ValidationFailure"
    ELSE "other"

Failed == pc = "done" /\ outcome.kind = "error"
DecoderInvoked == decodeCalls # <<>>
ValidatorInvoked == validateCalls # <<>>
Contains(message, part) == \E i \in 1..Len(message) : message[i] = part

\* C1: when the decoder accepts the extracted content and the validator accepts
\* the decoded value, parse returns exactly the value the validator returned
\* for decode(extract(text)): the decoder was handed the extracted content (the
\* same content for a text fenced with ```toon, fenced without a tag, or not
\* fenced), the validator was handed the decoder's value, and the call's
\* result is the validator's value, unchanged.
C1_ReturnsValidatedValue ==
    /\ (pc = "done" /\ DecoderInvoked /\ decoderResult.ok /\ ValidatorInvoked /\ validatorResult.ok)
          => outcome = Returned(validatorResult.value)
    /\ (pc = "done" /\ outcome.kind = "value")
          => /\ decodeCalls = <<decodeArguments(extractToonContent(text).str, options)>>
             /\ decoderResult.ok
             /\ validateCalls = <<decoderResult.value>>
             /\ validatorResult.ok
             /\ outcome.value = validatorResult.value
    /\ (pc = "done" /\ text \in {<<"a">>, Fenced(TagToon, <<"a">>), Fenced(<<>>, <<"a">>)})
          => /\ Len(decodeCalls) = 1
             /\ decodeCalls[1].content = <<"a">>

\* a fenced response was parsed and the validator's value, which differs from
\* the decoded one, came back
C1_Witness ==
    /\ pc = "done"
    /\ text = Fenced(TagToon, <<"a">>)
    /\ outcome.kind = "value"
    /\ outcome.value = JObj(<<Entry("name", JStr("John")), Entry("age", JNum(30))>>)
    /\ decoded # outcome.value

\* C2: parse of the empty string, of whitespace-only text, and of any text
\* from which the extractor locates no content, fails with ExtractionFailure,
\* and neither the decoder nor the validator is invoked.
C2_NoContentIsExtractionFailure ==
    (pc = "done" /\ ((\A i \in 1..Len(text) : IsSpace(text[i])) \/ toonContent.isNull \/ toonContent.str = <<>>))
        => /\ outcome.kind = "error"
           /\ ErrorKind(outcome.error) = "ExtractionFailure"
           /\ outcome.error = ExtractionFailureMessage
           /\ decodeCalls = <<>>
           /\ validateCalls = <<>>

C2_Witness ==
    /\ pc = "done"
    /\ text = <<>>
    /\ ErrorKind(outcome.error) = "ExtractionFailure"
    /\ decodeCalls = <<>>

\* C3: whenever the decoder accepts the extracted content and the validator
\* reports that the decoded value does not satisfy the schema, parse fails
\* with ValidationFailure; a call whose decoder accepted never fails with
\* DecodeFailure.
C3_SchemaMismatchIsValidationFailure ==
    /\ (pc = "done" /\ DecoderInvoked /\ decoderResult.ok /\ ValidatorInvoked
           /\ ~validatorResult.ok /\ validatorResult.zod)
          => (outcome.kind = "error" /\ ErrorKind(outcome.error) = "ValidationFailure")
    /\ (Failed /\ DecoderInvoked /\ decoderResult.ok)
          => ErrorKind(outcome.error) # "DecodeFailure"

\* 'age: not-a-number' decoded to {age: "not-a-number"} and the schema refused it
C3_Witness ==
    /\ Failed
    /\ decoded = JObj(<<Entry("age", JStr("not-a-number"))>>)
    /\ validatorResult.zod
    /\ ErrorKind(outcome.error) = "ValidationFailure"

\* what the decoder's throw says of itself: an Error's message, anything else as a string
DecoderSaid(thrown) ==
    CASE thrown.isError -> thrown.message
      [] OTHER -> thrown.str

\* C4: whenever the extractor returns content and the decoder raises on it,
\* parse fails with DecodeFailure, the report contains the decoder's own
\* message and the exact substring handed to the decoder, and the validator
\* is not invoked.
C4_DecoderThrowIsDecodeFailure ==
    (pc = "done" /\ DecoderInvoked /\ ~decoderResult.ok)
        => /\ outcome.kind = "error"
           /\ ErrorKind(outcome.error) = "DecodeFailure"
           /\ Contains(outcome.error, Lit(DecoderSaid(decoderResult.thrown)))
           /\ Contains(outcome.error, Chars(decodeCalls[1].content))
           /\ decodeCalls[1].content = toonContent.str
           /\ validateCalls = <<>>

C4_Witness ==
    /\ pc = "done"
    /\ DecoderInvoked
    /\ ~decoderResult.ok
    /\ decoderResult.thrown.isError
    /\ text = <<" ", "a">>
    /\ decodeCalls[1].content = <<"a">>
    /\ ErrorKind(outcome.error) = "DecodeFailure"

\* C5 as stated: every failing parse call fails with one of ExtractionFailure,
\* DecodeFailure, ValidationFailure, whatever the extractor, the decoder or
\* the validator did.
C5_OneOfThreeKinds ==
    Failed => ErrorKind(outcome.error) \in {"ExtractionFailure", "DecodeFailure", "ValidationFailure"}

\* the validator threw something that is not its validation error
ValidatorThrewOther == ValidatorInvoked /\ ~validatorResult.ok /\ ~validatorResult.zod

\* C5 (amended): every failing parse call fails with exactly one of
\* ExtractionFailure (nothing extracted), DecodeFailure (the decoder threw),
\* ValidationFailure (the validator threw its validation error), or, when the
\* validator threw anything else, with that very error passed on unchanged;
\* which of the four it is follows from the stage that failed.
C5_ThreeKindsOrRethrow ==
    Failed =>
        /\ ErrorKind(outcome.error) = "ExtractionFailure" <=> ~DecoderInvoked
        /\ ErrorKind(outcome.error) = "DecodeFailure" <=> (DecoderInvoked /\ ~decoderResult.ok)
        /\ ErrorKind(outcome.error) = "ValidationFailure" <=> (ValidatorInvoked /\ validatorResult.zod)
        /\ ErrorKind(outcome.error) = "other" <=> ValidatorThrewOther
        /\ ValidatorThrewOther => outcome.error = <<Lit(validatorResult.message)>>

\* the validator failed with something other than a validation error and the
\* caller got that error
C5_Witness ==
    /\ Failed
    /\ ValidatorThrewOther
    /\ ErrorKind(outcome.error) = "other"

\* C6: within one parse call the stages run in the order extract, decode,
\* validate, each at most once; the first stage that fails ends the call with
\* that stage's failure, no later stage runs, no stage is retried, and the
\* failure reaches the caller.
C6_StagesInOrderFirstFailureEnds ==
    /\ trace \in { <<>>, <<"extract">>, <<"extract", "decode">>, <<"extract", "decode", "validate">> }
    /\ Len(decodeCalls) <= 1
    /\ Len(validateCalls) <= 1
    /\ DecoderInvoked <=> Len(trace) >= 2
    /\ ValidatorInvoked <=> Len(trace) = 3
    /\ pc = "done" =>
        /\ Len(trace) >= 1
        /\ outcome.kind \in {"value", "error"}
        /\ ~Truthy(toonContent) => (trace = <<"extract">> /\ outcome.kind = "error")
        /\ (DecoderInvoked /\ ~decoderResult.ok)
              => (trace = <<"extract", "decode">> /\ outcome.kind = "error")
        /\ (ValidatorInvoked /\ ~validatorResult.ok)
              => (trace = <<"extract", "decode", "validate">> /\ outcome.kind = "error")
        /\ outcome.kind = "value"
              => (trace = <<"extract", "decode", "validate">> /\ decoderResult.ok /\ validatorResult.ok)

\* the decoder threw: the call ended there, with a failure, before validation
C6_Witness ==
    /\ pc = "done"
    /\ trace = <<"extract", "decode">>
    /\ ~decoderResult.ok
    /\ outcome.kind = "error"
    /\ validateCalls = <<>>

\* the entry a report is to show for a violation: dotted path, then the reason
ExpectedEntry(issue) ==
    IF issue.path = <<>>
    THEN "  - : Expected object, received string"
    ELSE "  - users.0.id: Required"

RECURSIVE ExpectedEntries(_)
ExpectedEntries(issues) ==
    IF Len(issues) = 1 THEN ExpectedEntry(issues[1])
    ELSE ExpectedEntry(issues[1]) \o "\n" \o ExpectedEntries(Tail(issues))

\* JSON.stringify(value, null, 2) of the values the decoder hands back
ExpectedJSON(v) ==
    IF v = JStr("invalid toon format {]") THEN "\"invalid toon format {]\""
    ELSE IF v = JObj(<<Entry("age", JStr("not-a-number"))>>)
    THEN "{\n  \"age\": \"not-a-number\"\n}"
    ELSE "{\n  \"users\": [\n    {\n      \"id\": 1,\n      \"name\": \"Alice\"\n    }\n  ]\n}"

\* C7: a ValidationFailure report holds exactly one entry per violation the
\* validator reported, in the validator's order, each entry the violation's
\* path joined by "." followed by the validator's reason, and the report also
\* holds the full decoded value tree.
C7_ValidationReport ==
    (Failed /\ ErrorKind(outcome.error) = "ValidationFailure")
        => /\ validatorResult.zod
           /\ Len(validatorResult.issues) >= 1
           /\ outcome.error[2] = Lit(ExpectedEntries(validatorResult.issues))
           /\ outcome.error[Len(outcome.error)] = Lit(ExpectedJSON(decoderResult.value))

\* two different violations, the nested one first, on the tabular value
C7_Witness ==
    /\ Failed
    /\ ErrorKind(outcome.error) = "ValidationFailure"
    /\ Len(validatorResult.issues) = 2
    /\ validatorResult.issues[1].path # <<>>
    /\ validatorResult.issues[2].path = <<>>
    /\ decoded.t = "object"
    /\ decoded.items[1].key = "users"

\* C8: the extractor's preference order, for every text: if the text holds a
\* fenced block tagged toon, tagged yaml or untagged, the result is the
\* trimmed interior of the first such block; otherwise, if the trimmed whole
\* text is non-empty, the result is the trimmed whole text; otherwise none.
C8_PreferenceOrder ==
    pc = "extracted" =>
        LET match == codeBlockMatch(text)
        IN  IF match.found THEN toonContent = Some(trim(match.group1))
            ELSE IF trim(text) # <<>> THEN toonContent = Some(trim(text))
            ELSE toonContent = Null

\* C9: for every interior text t, extracting from t inside a ```toon fence and
\* extracting from t inside an untagged fence both give what extracting from
\* t alone gives.
C9_FencedSameAsUnfenced ==
    pc = "extracted" =>
        /\ extractToonContent(Fenced(TagToon, text)) = toonContent
        /\ extractToonContent(Fenced(<<>>, text)) = toonContent

\* C10: every decoder invocation made by parse receives the extracted content
\* verbatim together with the instance's configured delimiter and its
\* configured strict flag.
C10_DecoderGetsDelimiterAndStrict ==
    \A i \in 1..Len(decodeCalls) :
        /\ decodeCalls[i].content = toonContent.str
        /\ "strict" \in DOMAIN decodeCalls[i].options
        /\ decodeCalls[i].options.strict = options.strict
        /\ "delimiter" \in DOMAIN decodeCalls[i].options
        /\ decodeCalls[i].options.delimiter = options.delimiter

includes(t, part) == \E i \in 1..Len(t) : StartsAt(t, i, part)

\* the schema under all the modifiers stacked on it
RECURSIVE Innermost(_)
Innermost(s) == IF s.innerType # <<>> THEN Innermost(s.innerType[1]) ELSE s

PrimitiveOrEnum == {"ZodString", "ZodNumber", "ZodBoolean", "ZodDate", "ZodEnum"}

\* C14: for an object schema, the instruction text of either generator
\* contains, for each top-level field that is a primitive or an enum (under
\* any modifiers), the field's name immediately followed by a colon.
C14_FieldNamesWithColon ==
    zodSchema.typeName = "ZodObject" =>
        \A i \in 1..Len(zodSchema.shape) :
            Innermost(zodSchema.shape[i].schema).typeName \in PrimitiveOrEnum =>
                /\ ~instructions.isNull =>
                       includes(instructions.str, zodSchema.shape[i].key \o <<":">>)
                /\ ~instructions_part002.isNull =>
                       includes(instructions_part002.str, zodSchema.shape[i].key \o <<":">>)

\* both generators have run on an object with an optional string field and
\* an enum field
C14_Witness ==
    /\ zodSchema = ZObject(<<Field(KeyName, ZOptional(ZString)), Field(KeyId, ZEnum(Roles))>>)
    /\ ~instructions.isNull
    /\ ~instructions_part002.isNull

\* the field names of an object schema, as its source text declares them
DeclaredNames(s) == [i \in 1..Len(s.shape) |-> s.shape[i].key]

\* field i of an object schema is an array whose elements are objects
IsArrayOfObjects(s) ==
    /\ Innermost(s).typeName = "ZodArray"
    /\ Innermost(Innermost(s).type[1]).typeName = "ZodObject"

ElementObject(s) == Innermost(Innermost(s).type[1])

\* k[2]{f1,...,fn}:
HeaderWithCountTwo(k, names) ==
    k \o <<"[", "2", "]", "{">> \o joinText(names, <<",">>) \o <<"}", ":">>

\* C15: for an object schema with an array-of-objects field k whose element
\* fields are declared f1..fn, the instructions contain k[2]{f1,...,fn}:
C15_HeaderShowsCountTwo ==
    zodSchema.typeName = "ZodObject" =>
        \A i \in 1..Len(zodSchema.shape) :
            IsArrayOfObjects(zodSchema.shape[i].schema) =>
                LET header == HeaderWithCountTwo(zodSchema.shape[i].key,
                                  DeclaredNames(ElementObject(zodSchema.shape[i].schema)))
                IN  /\ ~instructions.isNull => includes(instructions.str, header)
                    /\ ~instructions_part002.isNull => includes(instructions_part002.str, header)

\* getFormatInstructions has returned its text
InstructionsReturned == pc = "instructed" /\ ~instructions.isNull

\* the field names of an object schema in the order Object.keys reports them
EnumeratedNames(s) ==
    LET entries == ObjectEntries(s.shape) IN [i \in 1..Len(entries) |-> entries[i].key]

RECURSIVE EnumNodes(_, _)
EnumNodes(s, path) ==
    LET node == Innermost(s)
    IN  IF node.typeName = "ZodEnum" THEN <<Constraint(path, node.values)>>
        ELSE IF node.typeName = "ZodArray"
        THEN EnumNodes(node.type[1], path \o <<"[", "]">>)
        ELSE IF node.typeName = "ZodObject"
        THEN Flatten([i \in 1..Len(node.shape) |->
                         EnumNodes(node.shape[i].schema,
                                   IF path = <<>> THEN node.shape[i].key
                                   ELSE path \o <<".">> \o node.shape[i].key)])
        ELSE <<>>

FieldConstraintsTitle ==
    <<"F", "i", "e", "l", "d", " ", "C", "o", "n", "s", "t", "r", "a", "i", "n", "t", "s">>

\* C17: the records collected for a schema cover every enum node of its
\* tree, each under its path; the text has a Field Constraints section
\* exactly when there is a record, with a line "<path> must be one of: v1,
\* v2, ..." for each record.
C17_EveryEnumHasARecord ==
    ~instructions_part002.isNull =>
        /\ \A i \in 1..Len(EnumNodes(zodSchema, <<>>)) :
               \E j \in 1..Len(constraints) : constraints[j] = EnumNodes(zodSchema, <<>>)[i]
        /\ includes(instructions_part002.str, FieldConstraintsTitle) <=> constraints # <<>>
        /\ \A j \in 1..Len(constraints) :
               includes(instructions_part002.str,
                        constraints[j].field \o MustBeOneOf
                            \o joinText(constraints[j].values, <<",", " ">>))

\* a schema with every modifier removed, at every level
RECURSIVE Stripped(_)
Stripped(s) ==
    LET node == Innermost(s)
    IN  ZNode(node.typeName,
              [i \in 1..Len(node.shape) |->
                  Field(node.shape[i].key, Stripped(node.shape[i].schema))],
              <<>>,
              [i \in 1..Len(node.type) |-> Stripped(node.type[i])],
              node.values)

\* C18: a schema under any stack of optional / nullable / default modifiers
\* is classified as its innermost node is, and the shape and the instruction
\* texts are those of the schema with all its modifiers removed.
C18_ModifiersAreTransparent ==
    /\ schemaShape # NoShape =>
           /\ schemaShape.type = classify(Innermost(zodSchema).typeName)
           /\ schemaShape = getSchemaShape(Stripped(zodSchema))
    /\ ~instructions.isNull =>
           instructions.str = zodSchemaToToonInstructions(Stripped(zodSchema))
    /\ ~instructions_part002.isNull =>
           instructions_part002.str = zodSchemaToToonInstructions_part002(Stripped(zodSchema))

\* optional(nullable(string)) has been given the shape of a bare string
C18_Witness ==
    /\ zodSchema = ZOptional(ZNullable(ZString))
    /\ schemaShape = Shape("string", <<>>, <<>>, <<>>)
    /\ ~instructions.isNull
    /\ instructions.str = zodSchemaToToonInstructions(ZString)

\* the shape type of each class of schema
ExpectedType(typeName) ==
    CASE typeName = "ZodObject" -> "object"
      [] typeName = "ZodArray" -> "array"
      [] typeName = "ZodString" -> "string"
      [] typeName = "ZodNumber" -> "number"
      [] typeName = "ZodBoolean" -> "boolean"
      [] typeName = "ZodDate" -> "date"
      [] typeName = "ZodEnum" -> "enum"
      [] OTHER -> "string"

\* a shape gives every node of a schema the type of its class
RECURSIVE ShapeAgrees(_, _)
ShapeAgrees(s, sh) ==
    LET node == Innermost(s)
    IN  /\ sh.type = ExpectedType(node.typeName)
        /\ node.typeName = "ZodObject" =>
               /\ Len(sh.fields) = Len(node.shape)
               /\ \A i \in 1..Len(node.shape) :
                      \E j \in 1..Len(sh.fields) :
                          /\ sh.fields[j].key = node.shape[i].key
                          /\ ShapeAgrees(node.shape[i].schema, sh.fields[j].shape)
        /\ node.typeName = "ZodArray" =>
               /\ Len(sh.element) = 1
               /\ ShapeAgrees(node.type[1], sh.element[1])

\* C19: every node of a schema is classified by its class (object, array,
\* string, number, boolean, date, enum) and a node of any other class, at the
\* root, as a field or as an element, is a string shape; a generator that has
\* run has returned a whole text, from its rules to its closing sentence.
C19_ClassificationAndFallback ==
    /\ schemaShape # NoShape =>
           /\ ShapeAgrees(zodSchema, schemaShape)
           /\ ~instructions.isNull \/ ~instructions_part002.isNull
    /\ ~instructions.isNull =>
           /\ StartsAt(instructions.str, 1, RulesText)
           /\ StartsAt(instructions.str, Len(instructions.str) - Len(ClosingText) + 1,
                       ClosingText)
    /\ ~instructions_part002.isNull =>
           /\ StartsAt(instructions_part002.str, 1, RulesText_part002)
           /\ StartsAt(instructions_part002.str,
                       Len(instructions_part002.str) - Len(ClosingText) + 1, ClosingText)

\* a node of another class as the element of an array has a string shape
C19_Witness ==
    /\ zodSchema = ZObject(<<Field(KeyId, ZArray(ZLiteral))>>)
    /\ schemaShape =
           Shape("object",
                 <<[key |-> KeyId,
                    shape |-> Shape("array", <<>>, <<Shape("string", <<>>, <<>>, <<>>)>>, <<>>)]>>,
                 <<>>, <<>>)
    /\ ~instructions.isNull

\* the messages withStructuredToonParser builds for an input
ExpectedMessages(in) ==
    IF in.kind = "string"
    THEN <<SystemMessage(zodSchemaToToonInstructions(zodSchema)), HumanMessage(in.str)>>
    ELSE <<SystemMessage(zodSchemaToToonInstructions(zodSchema))>> \o in.list

\* C12: in every invocation the model is handed one system message carrying
\* the schema's format instructions, then the caller's input: Human(s) for a
\* string s, the caller's messages in their order and unchanged for a
\* sequence; the caller's sequence is as the caller passed it, during and
\* after the invocation.
C12_InstructionsPrepended ==
    /\ [](steps # <<>> =>
             /\ messages = ExpectedMessages(input)
             /\ \A i \in 1..Len(modelCalls) : modelCalls[i] = ExpectedMessages(input))
    /\ [][\A in \in Inputs : Invoke(in) => input' = in]_vars
    /\ [][(steps # <<>> /\ steps' # <<>>) => (input' = input /\ messages' = messages)]_vars

\* the model has been called with the instructions ahead of a caller's system
\* message and human message
C12_Witness ==
    /\ pc = "responded"
    /\ input = MessagesInput(<<SystemMessage(<<"b", "e", " ", "b", "r", "i", "e", "f">>),
                               HumanMessage(<<"h", "i">>)>>)
    /\ modelCalls = << <<SystemMessage(formatInstructions)>> \o input.list >>

\* C13: an invocation calls the model exactly once, with the messages that
\* carry the instructions and before the parser; the parser runs only on the
\* answer of that call; a failure of the model call or of the parser is the
\* outcome of the invocation, and the model is not called a second time.
C13_OneModelCallNoRetry ==
    /\ steps \in {<<>>, <<"withInstructions">>, <<"withInstructions", "model">>,
                  <<"withInstructions", "model", "parser">>}
    /\ Len(modelCalls) = (IF Len(steps) >= 2 THEN 1 ELSE 0)
    /\ \A i \in 1..Len(modelCalls) :
           /\ modelCalls[i] = messages
           /\ messages[1] = SystemMessage(formatInstructions)
    /\ (trace # <<>> \/ Len(steps) = 3) =>
           /\ Len(steps) = 3
           /\ modelResult.ok
           /\ text = modelResult.content
           /\ outcome.kind # "none"
    /\ (Len(steps) >= 2 /\ ~modelResult.ok) =>
           /\ steps = <<"withInstructions", "model">>
           /\ pc = "done"
           /\ outcome = Thrown(<<Lit(modelResult.thrown)>>)
           /\ trace = <<>>
    /\ (steps # <<>> /\ pc = "done") => outcome.kind # "none"

\* the parser failed on the model's answer and the model was called once
C13_Witness ==
    /\ steps = <<"withInstructions", "model", "parser">>
    /\ pc = "done"
    /\ outcome.kind = "error"
    /\ Len(modelCalls) = 1

\* the interior of the fenced block of the text is empty or white space only
BlankFencedInterior ==
    /\ codeBlockMatch(text).found
    /\ \A i \in 1..Len(codeBlockMatch(text).group1) : IsSpace(codeBlockMatch(text).group1[i])

\* the text without its leading and trailing white space
WithoutOuterSpace(t) ==
    IF \A i \in 1..Len(t) : IsSpace(t[i]) THEN <<>>
    ELSE SubSeq(t, CHOOSE i \in 1..Len(t) : ~IsSpace(t[i]) /\ \A j \in 1..(i - 1) : IsSpace(t[j]),
                   CHOOSE i \in 1..Len(t) : ~IsSpace(t[i]) /\ \A j \in (i + 1)..Len(t) : IsSpace(t[j]))

\* C28: in every parse call the decoder is handed a string that is not empty
\* and neither starts nor ends with white space; when the interior of a fenced
\* block is empty or white space only, the call ends in ExtractionFailure
\* without a decoder call, or hands the decoder the trimmed whole text.
C28_DecoderGetsTrimmedContent ==
    /\ \A i \in 1..Len(decodeCalls) :
           /\ decodeCalls[i].content # <<>>
           /\ ~IsSpace(decodeCalls[i].content[1])
           /\ ~IsSpace(decodeCalls[i].content[Len(decodeCalls[i].content)])
    /\ (pc = "done" /\ BlankFencedInterior) =>
           \/ /\ decodeCalls = <<>>
              /\ ErrorKind(outcome.error) = "ExtractionFailure"
           \/ /\ Len(decodeCalls) = 1
              /\ decodeCalls[1].content = WithoutOuterSpace(text)

\* a fenced block whose interior is empty went to the decoder as the whole
\* text, fences included
C28_Witness ==
    /\ pc = "done"
    /\ BlankFencedInterior
    /\ Len(decodeCalls) = 1
    /\ decodeCalls[1].content = Fenced(<<>>, <<>>)

\* the example inside an instruction text: what stands between the opening
\* of the code block and its closing
ExampleOf(t) ==
    LET start == CHOOSE i \in 1..Len(t) :
                     /\ StartsAt(t, i, StructureText)
                     /\ \A j \in 1..(i - 1) : ~StartsAt(t, j, StructureText)
    IN  SubSeq(t, start + Len(StructureText), Len(t) - Len(ClosingText))

\* a text cut at its line breaks
RECURSIVE SplitLines(_)
SplitLines(t) ==
    IF \A i \in 1..Len(t) : t[i] # NL THEN <<t>>
    ELSE LET b == CHOOSE i \in 1..Len(t) : t[i] = NL /\ \A j \in 1..(i - 1) : t[j] # NL
         IN  <<SubSeq(t, 1, b - 1)>> \o SplitLines(SubSeq(t, b + 1, Len(t)))

ExampleLines(t) == SplitLines(ExampleOf(t))

\* the number of spaces a line starts with
Indentation(l) ==
    IF \A i \in 1..Len(l) : l[i] = " " THEN Len(l)
    ELSE (CHOOSE i \in 1..Len(l) : l[i] # " " /\ \A j \in 1..(i - 1) : l[j] = " ") - 1

\* the lines that start with the key k and an opening bracket, not indented
HeaderLines(ls, k) == { h \in 1..Len(ls) : StartsAt(ls[h], 1, k \o <<"[">>) }

\* the fields of the elements of an array-of-objects schema, as enumerated
ElementEntries(s) == ObjectEntries(ElementObject(s).shape)

\* the element field has one example value only: an enum of fewer than two literals
SingleValued(s) == Innermost(s).typeName = "ZodEnum" /\ Len(Innermost(s).values) < 2

\* the two lines under the header of the top-level field k are the rows
\* row1 and row2, indented by two spaces, and no third row follows
TwoRowsUnder(ls, k, row1, row2) ==
    /\ Cardinality(HeaderLines(ls, k)) = 1
    /\ \A h \in HeaderLines(ls, k) :
           /\ Len(ls) >= h + 2
           /\ ls[h + 1] = <<" ", " ">> \o row1
           /\ ls[h + 2] = <<" ", " ">> \o row2
           /\ Len(ls) > h + 2 => Indentation(ls[h + 3]) = 0 /\ ls[h + 3] # <<>>

\* C22 as stated: under the header of every array-of-objects field the
\* example has two rows, and the two rows differ as strings.
C22_TwoDistinctRows ==
    zodSchema.typeName = "ZodObject" =>
        \A i \in 1..Len(zodSchema.shape) :
            IsArrayOfObjects(zodSchema.shape[i].schema) =>
                \A t \in {instructions, instructions_part002} :
                    ~t.isNull =>
                        \A h \in HeaderLines(ExampleLines(t.str), zodSchema.shape[i].key) :
                            /\ Len(ExampleLines(t.str)) >= h + 2
                            /\ ExampleLines(t.str)[h + 1] # ExampleLines(t.str)[h + 2]

\* C22, amended: under the header of every array-of-objects field the
\* example has exactly two rows, the first made of the element fields'
\* example values without alternate, the second of their values with
\* alternate; the rows differ as strings whenever some element field is not
\* an enum of fewer than two literals.
C22_TwoRowsFirstPlainSecondAlternate ==
    zodSchema.typeName = "ZodObject" =>
        \A i \in 1..Len(zodSchema.shape) :
            IsArrayOfObjects(zodSchema.shape[i].schema) =>
                LET es == ElementEntries(zodSchema.shape[i].schema)
                    k == zodSchema.shape[i].key
                    row(alternate) ==
                        joinText([j \in 1..Len(es) |->
                                     getExampleValue(getSchemaShape(es[j].schema), alternate)], <<",">>)
                    row_part002(alternate) ==
                        joinText([j \in 1..Len(es) |->
                                     getExampleValue_part002(getSchemaShape(es[j].schema), alternate)],
                                 <<",">>)
                    differ == \E j \in 1..Len(es) : ~SingleValued(es[j].schema)
                IN  /\ ~instructions.isNull =>
                           /\ TwoRowsUnder(ExampleLines(instructions.str), k, row(FALSE), row(TRUE))
                           /\ differ => row(FALSE) # row(TRUE)
                    /\ ~instructions_part002.isNull =>
                           /\ TwoRowsUnder(ExampleLines(instructions_part002.str), k,
                                           row_part002(FALSE), row_part002(TRUE))
                           /\ differ => row_part002(FALSE) # row_part002(TRUE)

\* both generators have run on a schema whose rows are a number and an enum
\* of two literals
C22_Witness ==
    /\ zodSchema = ZObject(<<Field(KeyName, ZArray(ZObject(<<Field(KeyId, ZNumber),
                                                           Field(KeyName, ZEnum(Roles))>>)))>>)
    /\ ~instructions.isNull
    /\ ~instructions_part002.isNull
    /\ ExampleLines(instructions_part002.str)[2] = <<" ", " ", "1", "2", "3", ",", "a", "d", "m", "i", "n">>
    /\ ExampleLines(instructions_part002.str)[3] = <<" ", " ", "4", "2", ",", "u", "s", "e", "r">>

\* an enum literal as the sentence renders it: in quotes only when it holds
\* a comma, a colon, white space or a quote
RenderedLiteral(value) ==
    IF \E i \in 1..Len(value) : value[i] \in {",", ":", "\""} \/ IsSpace(value[i])
    THEN <<"\"">> \o value \o <<"\"">>
    ELSE value

\* C23: the example value of an enum is its first literal, or its second
\* when alternate is asked for and there is one, in quotes only when it holds
\* a comma, a colon, white space or a quote and bare otherwise: a top-level
\* enum field k reads "k: <first>", and the rows of a table with one enum
\* column read <first> and <second, or first when there is no second>.
C23_EnumLiteralQuotedWhenNeeded ==
    zodSchema.typeName = "ZodObject" =>
        \A i \in 1..Len(zodSchema.shape) :
            \A t \in {instructions, instructions_part002} :
                ~t.isNull =>
                    LET s == zodSchema.shape[i].schema
                        k == zodSchema.shape[i].key
                        ls == ExampleLines(t.str)
                    IN  /\ (Innermost(s).typeName = "ZodEnum" /\ Innermost(s).values # <<>>) =>
                               \E l \in 1..Len(ls) :
                                   ls[l] = k \o <<":", " ">> \o RenderedLiteral(Innermost(s).values[1])
                        /\ (IsArrayOfObjects(s) /\ Len(ElementEntries(s)) = 1
                               /\ Innermost(ElementEntries(s)[1].schema).typeName = "ZodEnum") =>
                               LET values == Innermost(ElementEntries(s)[1].schema).values
                               IN  TwoRowsUnder(ls, k, RenderedLiteral(values[1]),
                                       RenderedLiteral(IF Len(values) > 1 THEN values[2] ELSE values[1]))

\* names lists the declared names once each, the index-like ones first in
\* ascending order and then the others in the order they were declared
InKeyOrder(names, declared) ==
    /\ Len(names) = Len(declared)
    /\ \A i \in 1..Len(declared) : \E j \in 1..Len(names) : names[j] = declared[i]
    /\ \A i, j \in 1..Len(names) :
           i < j =>
               LET p == CHOOSE q \in 1..Len(declared) : declared[q] = names[i]
                   r == CHOOSE q \in 1..Len(declared) : declared[q] = names[j]
               IN  IF IsIndexKey(names[i])
                   THEN IsIndexKey(names[j]) => IndexValue(names[i]) < IndexValue(names[j])
                   ELSE ~IsIndexKey(names[j]) /\ p < r

KeyOrder(declared) ==
    CHOOSE names \in [1..Len(declared) -> { declared[i] : i \in 1..Len(declared) }] :
        InKeyOrder(names, declared)

\* the declared names in the order of Object.entries, or as declared
Order(enumerated, declared) == IF enumerated THEN KeyOrder(declared) ELSE declared

\* the schema of the field called k of an object schema
FieldNamed(s, k) == s.shape[CHOOSE i \in 1..Len(s.shape) : s.shape[i].key = k].schema

\* the fields of the shape tree stand, at every object of the schema, in the
\* declared or the enumerated order
RECURSIVE ShapeInOrder(_, _, _)
ShapeInOrder(s, sh, enumerated) ==
    LET node == Innermost(s)
    IN  IF node.typeName = "ZodObject"
        THEN /\ [i \in 1..Len(sh.fields) |-> sh.fields[i].key] = Order(enumerated, DeclaredNames(node))
             /\ \A i \in 1..Len(sh.fields) :
                    ShapeInOrder(FieldNamed(node, sh.fields[i].key), sh.fields[i].shape, enumerated)
        ELSE IF node.typeName = "ZodArray"
        THEN ShapeInOrder(node.type[1], sh.element[1], enumerated)
        ELSE TRUE

\* the lines of the top-level fields: those that are not indented
FieldLines(ls) == SelectSeq(ls, LAMBDA l : l # <<>> /\ l[1] # " ")

\* in the example of text t the top-level field lines, the columns of each
\* top-level table and the values of its rows stand in the declared or the
\* enumerated order; Value gives a field's example value
ExampleInOrder(t, enumerated, Value(_, _)) ==
    LET ls == ExampleLines(t)
        names == Order(enumerated, DeclaredNames(zodSchema))
    IN  /\ Len(FieldLines(ls)) = Len(names)
        /\ \A i \in 1..Len(names) :
               \/ StartsAt(FieldLines(ls)[i], 1, names[i] \o <<":">>)
               \/ StartsAt(FieldLines(ls)[i], 1, names[i] \o <<"[">>)
        /\ \A i \in 1..Len(names) :
               IsArrayOfObjects(FieldNamed(zodSchema, names[i])) =>
                   LET element == ElementObject(FieldNamed(zodSchema, names[i]))
                       columns == Order(enumerated, DeclaredNames(element))
                       row(alternate) ==
                           joinText([j \in 1..Len(columns) |->
                                        Value(getSchemaShape(FieldNamed(element, columns[j])), alternate)],
                                    <<",">>)
                   IN  /\ \A h \in HeaderLines(ls, names[i]) :
                              \E c \in {"N", "2"} :
                                  ls[h] = names[i] \o <<"[", c, "]", "{">>
                                              \o joinText(columns, <<",">>) \o <<"}", ":">>
                       /\ TwoRowsUnder(ls, names[i], row(FALSE), row(TRUE))

FieldOrderIs(enumerated) ==
    zodSchema.typeName = "ZodObject" =>
        /\ schemaShape # NoShape => ShapeInOrder(zodSchema, schemaShape, enumerated)
        /\ ~instructions.isNull => ExampleInOrder(instructions.str, enumerated, getExampleValue)
        /\ ~instructions_part002.isNull =>
               ExampleInOrder(instructions_part002.str, enumerated, getExampleValue_part002)

Line(indent, start, whole) == [indent |-> indent, start |-> start, whole |-> whole]

\* the lines an object schema at nesting depth d gives: for each field, in
\* the order of enumeration, "key: value" for a primitive or an enum, "key:"
\* and the body one level deeper for an object (one empty line when that
\* object has no fields), "key[" and the header for an array, followed by two
\* rows one level deeper when its elements are objects
RECURSIVE Layout(_, _)
Layout(s, d) ==
    LET entries == ObjectEntries(Innermost(s).shape)
        of(e) ==
            LET node == Innermost(e.schema)
            IN  IF node.typeName = "ZodObject"
                THEN <<Line(2 * d, e.key \o <<":">>, TRUE)>>
                         \o (IF node.shape = <<>> THEN <<Line(0, <<>>, TRUE)>>
                             ELSE Layout(node, d + 1))
                ELSE IF node.typeName = "ZodArray"
                THEN <<Line(2 * d, e.key \o <<"[">>, FALSE)>>
                         \o (IF IsArrayOfObjects(e.schema)
                             THEN <<Line(2 * (d + 1), <<>>, FALSE), Line(2 * (d + 1), <<>>, FALSE)>>
                             ELSE <<>>)
                ELSE <<Line(2 * d, e.key \o <<":", " ">>, FALSE)>>
    IN  Flatten([i \in 1..Len(entries) |-> of(entries[i])])

\* the lines ls are laid out as described
LaidOut(ls, layout) ==
    /\ Len(ls) = Len(layout)
    /\ \A i \in 1..Len(layout) :
           /\ Indentation(ls[i]) = layout[i].indent
           /\ StartsAt(ls[i], layout[i].indent + 1, layout[i].start)
           /\ layout[i].whole => Len(ls[i]) = layout[i].indent + Len(layout[i].start)

\* C25: in the example of an object schema, an object at nesting depth d
\* gives each of its field lines exactly 2*d spaces of indentation: a
\* primitive or enum field reads "key: <value>", a nested object field reads
\* "key:" and is followed by that object's lines at depth d+1, an
\* array-of-objects field reads "key" with the header on the same line and
\* is followed by its two rows indented as depth d+1.
C25_IndentationByDepth ==
    (zodSchema.typeName = "ZodObject" /\ zodSchema.shape # <<>>) =>
        /\ ~instructions.isNull =>
               LaidOut(ExampleLines(instructions.str), Layout(zodSchema, 0))
        /\ ~instructions_part002.isNull =>
               LaidOut(ExampleLines(instructions_part002.str), Layout(zodSchema, 0))

\* both generators have run on an object whose nested object holds a table:
\* the header is indented by two spaces, the rows by four
C25_Witness ==
    /\ zodSchema = ZObject(<<Field(KeyName, ZObject(<<Field(KeyId,
                       ZArray(ZObject(<<Field(KeyId, ZEnum(Roles))>>)))>>))>>)
    /\ ~instructions.isNull
    /\ ~instructions_part002.isNull
    /\ ExampleLines(instructions_part002.str)
           = << <<"n", "a", "m", "e", ":">>,
                <<" ", " ", "i", "d", "[", "2", "]", "{", "i", "d", "}", ":">>,
                <<" ", " ", " ", " ", "a", "d", "m", "i", "n">>,
                <<" ", " ", " ", " ", "u", "s", "e", "r">> >>

\* the schema is an array whose elements are primitives or enums
IsArrayOfPrimitives(s) ==
    /\ Innermost(s).typeName = "ZodArray"
    /\ Innermost(Innermost(s).type[1]).typeName \in PrimitiveOrEnum

\* [2]: v1, v2
InlineArray(v1, v2) == <<"[", "2", "]", ":", " ">> \o v1 \o <<",", " ">> \o v2

\* C26: an array whose element is a primitive or an enum is rendered inline
\* as "[2]: v1, v2", v1 and v2 being the element's example value and its
\* alternate: this is the whole example when the schema is such an array, and
\* the line "k[2]: v1, v2" for a top-level field k that is one.
C26_PrimitiveArrayInline ==
    /\ IsArrayOfPrimitives(zodSchema) =>
           LET element == getSchemaShape(Innermost(zodSchema).type[1])
           IN  /\ ~instructions.isNull =>
                      ExampleOf(instructions.str)
                          = InlineArray(getExampleValue(element, FALSE), getExampleValue(element, TRUE))
               /\ ~instructions_part002.isNull =>
                      ExampleOf(instructions_part002.str)
                          = InlineArray(getExampleValue_part002(element, FALSE),
                                        getExampleValue_part002(element, TRUE))
    /\ zodSchema.typeName = "ZodObject" =>
           \A i \in 1..Len(zodSchema.shape) :
               IsArrayOfPrimitives(zodSchema.shape[i].schema) =>
                   LET element == getSchemaShape(Innermost(zodSchema.shape[i].schema).type[1])
                       k == zodSchema.shape[i].key
                   IN  /\ ~instructions.isNull =>
                              \E l \in 1..Len(ExampleLines(instructions.str)) :
                                  ExampleLines(instructions.str)[l]
                                      = k \o InlineArray(getExampleValue(element, FALSE),
                                                         getExampleValue(element, TRUE))
                       /\ ~instructions_part002.isNull =>
                              \E l \in 1..Len(ExampleLines(instructions_part002.str)) :
                                  ExampleLines(instructions_part002.str)[l]
                                      = k \o InlineArray(getExampleValue_part002(element, FALSE),
                                                         getExampleValue_part002(element, TRUE))

\* the modifier objects stacked on a schema value
RECURSIVE StackedModifiers(_)
StackedModifiers(s) ==
    IF s.typeName \notin Modifiers THEN 0
    ELSE IF s.innerType # <<>> THEN 1 + StackedModifiers(s.innerType[1])
    ELSE IF s.type # <<>> THEN 1 + StackedModifiers(s.type[1])
    ELSE 1

\* C27: the unwrapping loop of the shape derivation stops after as many
\* iterations as there are modifiers stacked on the schema: it never runs
\* more iterations than that, and after that many its node is no modifier,
\* whether or not a modifier's inner schema can be read.
C27_LoopStopsAfterStackedModifiers ==
    /\ iterations <= StackedModifiers(zodSchema)
    /\ iterations = StackedModifiers(zodSchema) => unwrappedNode.typeName \notin Modifiers

\* what invocation i gives its caller when it is the only one running: parse
\* run from its start to its end on the same parser with the same text and
\* the same answers of the decoder and the validator
Alone(i) ==
    parse(parsers[calls[i].parser].options, calls[i].text,
          calls[i].locals.decoderResult, calls[i].locals.validatorResult)

\* C21: however the steps of concurrent parse and getFormatInstructions
\* invocations on one parser or on different parsers interleave, each
\* invocation that has returned gave what it gives when it runs alone: the
\* same value or failure, after the same calls of the decoder and the
\* validator; and no step changes a parser.
C21_ConcurrentCallsDoNotInterfere ==
    /\ [](\A i \in 1..MaxCalls :
             calls[i].pc = "returned" =>
                 /\ calls[i].kind = "parse" => calls[i].locals = Alone(i)
                 /\ calls[i].kind = "getFormatInstructions" =>
                        calls[i].instructions = zodSchemaToToonInstructions(parsers[calls[i].parser].schema))
    /\ [][parsers' = parsers]_vars

\* two parse invocations on the same parser with different texts have both
\* returned, the second having extracted while the first stood before its
\* decode: each decoded its own content
C21_Witness ==
    /\ calls[1].pc = "returned" /\ calls[2].pc = "returned"
    /\ calls[1].parser = 2 /\ calls[2].parser = 2
    /\ calls[1].kind = "parse" /\ calls[2].kind = "parse"
    /\ Len(calls[1].locals.decodeCalls) = 1 /\ Len(calls[2].locals.decodeCalls) = 1
    /\ calls[1].locals.decodeCalls[1].content = <<"a">>
    /\ calls[2].locals.decodeCalls[1].content = <<"a", "a">>
    /\ calls[1].locals.outcome.kind = "value"
    /\ calls[2].locals.outcome.kind = "error"

\* C29: the instruction text depends on the schema only: getFormatInstructions
\* invocations on two parsers built from the same schema return the same
\* text whatever the delimiter and strict options of the two parsers.
C29_InstructionsIgnoreOptions ==
    \A i, j \in 1..MaxCalls :
        (/\ calls[i].pc = "returned" /\ calls[i].kind = "getFormatInstructions"
         /\ calls[j].pc = "returned" /\ calls[j].kind = "getFormatInstructions"
         /\ parsers[calls[i].parser].schema = parsers[calls[j].parser].schema)
            => calls[i].instructions = calls[j].instructions

\* a parser with the default options and a parser with a tab delimiter and
\* strict: false have both returned their instructions
C29_Witness ==
    /\ parsers[1].options = [delimiter |-> ",", strict |-> TRUE]
    /\ parsers[2].options = [delimiter |-> "\t", strict |-> FALSE]
    /\ calls[1].pc = "returned" /\ calls[1].kind = "getFormatInstructions" /\ calls[1].parser = 1
    /\ calls[2].pc = "returned" /\ calls[2].kind = "getFormatInstructions" /\ calls[2].parser = 2
    /\ calls[1].instructions # <<>>

====
